---- MODULE Spec2Model ----
(***************************************************************************)
(* Model of the WhatsApp watch-sale RAG server: the two extractors         *)
(* (src/src/llm_watch_extractor.py, src/src/watch_info_extractor.py), the  *)
(* record merger and pipeline entry point (src/app.py) and the embedding   *)
(* text builder and store access (src/src/embedding_processor.py).         *)
(*                                                                         *)
(* Conventions.  Python strings are TLA+ strings (Len, \o and SubSeq act   *)
(* on them character by character).  A Python value whose type is not      *)
(* fixed (a JSON value, a dict entry) is a record of one shape             *)
(* [t, s, n, d, l]: t names the type, s holds a str, n a number (or 1/0    *)
(* for a bool), d a dict (a function from key strings to such values) and  *)
(* l a list.  Scores that are floats in [0,1] in the code are counted in   *)
(* hundredths (0.2 is 20), prices in whole currency units.                 *)
(***************************************************************************)
EXTENDS Integers, Sequences, FiniteSets, TLC

VARIABLES
    extraction_cache,   \* LLMWatchExtractor._extraction_cache: key -> LLMWatchInfo
    completion_calls,   \* number of chat.completions.create calls issued so far
    extract_log,        \* one entry per extractor operation performed, in order
    brand_order,        \* iteration order of WatchInfoExtractor.watch_brands
    watch_extractor,    \* app.watch_extractor: "llm", "regex" or "none"
    has_processor,      \* app.embedding_processor is not None
    openai_api_key,     \* OPENAI_API_KEY is set
    started,            \* startup_event has run
    table,              \* rows of the watch_conversations table, in insertion order
    stats,              \* app.stats counters touched by the pipeline
    pipeline_log,       \* one entry per process_message_with_rag call, in order
    build_in,           \* last input of _create_enhanced_text_for_embedding
    build_out,          \* and the string it returned
    merge_in,           \* last input of create_message_embedding_from_watch_info
    merge_out,          \* and its result (an entry, or the exception it raised)
    merge_again,        \* the result of the same call made once more, later
    embedding_cache,    \* RAGSearcher.embedding_cache: its items in iteration order
    query_inserts,      \* number of items put into that cache so far
    query_log,          \* the last generate_query_embedding call
    batch_in,           \* input of extract_batch: the messages and the service's answers
    batch_out,          \* and its result
    enrich_in,          \* input of the context enrichment called on its own
    enrich_out,         \* and what its two functions returned or raised
    delivery,           \* the webhook delivery being handled by webhook_event
    keyed,              \* two inputs of _generate_cache_key and the strings hashed
    race,               \* two workers inside generate_query_embedding on one searcher
    storing,            \* one process_and_store_conversation call
    realtime            \* a WhatsAppRealtimeAPI: its contact contexts and handlers

vars == <<extraction_cache, completion_calls, extract_log, brand_order, watch_extractor,
          has_processor, openai_api_key, started, table, stats, pipeline_log,
          build_in, build_out, merge_in, merge_out, merge_again,
          embedding_cache, query_inserts, query_log, batch_in, batch_out,
          enrich_in, enrich_out, delivery, keyed, race, storing, realtime>>

extractor_vars == <<extraction_cache, completion_calls, extract_log, brand_order>>
pipeline_vars == <<watch_extractor, has_processor, openai_api_key, started, table, stats,
                   pipeline_log>>
build_vars == <<build_in, build_out>>
merge_vars == <<merge_in, merge_out, merge_again>>
query_vars == <<embedding_cache, query_inserts, query_log>>
\* the components the server's handler does not use
batch_vars == <<batch_in, batch_out>>
enrich_vars == <<enrich_in, enrich_out>>
standalone_vars == <<query_vars, batch_vars, enrich_vars>>
delivery_vars == <<delivery>>
\* the components checked on their own
late_vars == <<keyed, race, storing, realtime>>

-----------------------------------------------------------------------------
(* Python values *)

EmptyDict == <<>>
EmptyList == <<>>

PyNone == [t |-> "none", s |-> "", n |-> 0, d |-> EmptyDict, l |-> EmptyList]
PyStr(x) == [t |-> "str", s |-> x, n |-> 0, d |-> EmptyDict, l |-> EmptyList]
PyNum(x) == [t |-> "num", s |-> "", n |-> x, d |-> EmptyDict, l |-> EmptyList]
PyBool(b) == [t |-> "bool", s |-> "", n |-> IF b THEN 1 ELSE 0, d |-> EmptyDict, l |-> EmptyList]
PyDict(f) == [t |-> "dict", s |-> "", n |-> 0, d |-> f, l |-> EmptyList]
PyList(q) == [t |-> "list", s |-> "", n |-> 0, d |-> EmptyDict, l |-> q]
\* an instance of dataclass cls whose __dict__ is f
PyObj(cls, f) == [t |-> "obj", s |-> cls, n |-> 0, d |-> f, l |-> EmptyList]
\* a list of n floats (an embedding vector), its elements left out
PyVec(len) == [t |-> "vec", s |-> "", n |-> len, d |-> EmptyDict, l |-> EmptyList]

\* list(set(...)): a list holding the elements of S once each, in an order
\* the language leaves open
PyListOfSet(S) == [t |-> "set", s |-> "", n |-> 0, d |-> [k \in S |-> TRUE], l |-> EmptyList]

PyTrue == PyBool(TRUE)
PyFalse == PyBool(FALSE)

\* bool(v): Python truthiness
Truthy(v) ==
    CASE v.t = "none" -> FALSE
      [] v.t = "str"  -> v.s # ""
      [] v.t = "num"  -> v.n # 0
      [] v.t = "bool" -> v.n = 1
      [] v.t = "dict" -> DOMAIN v.d # {}
      [] v.t = "list" -> Len(v.l) > 0
      [] v.t = "vec"  -> v.n > 0
      [] v.t = "obj"  -> TRUE

\* str(v) for the scalar types the code formats into strings
Str(v) ==
    CASE v.t = "none" -> "None"
      [] v.t = "str"  -> v.s
      [] v.t = "bool" -> IF v.n = 1 THEN "True" ELSE "False"
      [] v.t = "num"  -> ToString(v.n)
      [] v.t = "dict" -> "{..}"
      [] v.t = "list" -> "[..]"
      [] v.t = "vec"  -> "[..]"
      [] v.t = "obj"  -> v.s \o "(..)"

\* v.get(k, dflt) on a dict v (the caller checks HasGet(v) first)
Get(v, k, dflt) == IF k \in DOMAIN v.d THEN v.d[k] ELSE dflt

\* v has a .get method: only a dict has, anything else raises AttributeError
HasGet(v) == v.t = "dict"

\* o.name on a dataclass instance
Attr(o, name) == o.d[name]

\* a or b
PyOr(a, b) == IF Truthy(a) THEN a ELSE b

\* f"{v:.2f}" raises for anything but a number (a bool formats as 1.00 / 0.00)
FormatFloatRaises(v) == v.t \notin {"num", "bool"}

\* v > k raises TypeError unless v is a number
CompareRaises(v) == v.t \notin {"num", "bool"}

-----------------------------------------------------------------------------
(* Python string operations *)

Min(a, b) == IF a < b THEN a ELSE b
Max(a, b) == IF a > b THEN a ELSE b

\* s[i] (1-based)
Char(s, i) == SubSeq(s, i, i)

\* s[:n]
Prefix(s, n) == IF Len(s) > n THEN SubSeq(s, 1, n) ELSE s

\* s[n:] (0-based n)
Suffix(s, n) == IF n >= Len(s) THEN "" ELSE SubSeq(s, n + 1, Len(s))

\* c * n
RECURSIVE Rep(_, _)
Rep(c, n) ==
    IF n = 0 THEN ""
    ELSE LET h == Rep(c, n \div 2)
         IN  IF n % 2 = 0 THEN h \o h ELSE h \o h \o c

\* p in s
Contains(s, p) ==
    \E i \in 1..(Len(s) - Len(p) + 1) : SubSeq(s, i, i + Len(p) - 1) = p

\* any(p in s for p in ps), ps a sequence of strings
ContainsAny(s, ps) == \E k \in 1..Len(ps) : Contains(s, ps[k])

\* the patterns of seq that occur in s, in the order of seq
RECURSIVE Occurring(_, _)
Occurring(s, seq) ==
    IF Len(seq) = 0 THEN <<>>
    ELSE (IF Contains(s, Head(seq)) THEN <<Head(seq)>> ELSE <<>>) \o Occurring(s, Tail(seq))

\* s.startswith(p)
StartsWith(s, p) == Len(p) <= Len(s) /\ SubSeq(s, 1, Len(p)) = p

\* s.count(p) for a one-character p
CountChar(s, p) == Cardinality({i \in 1..Len(s) : Char(s, i) = p})

UpperAlphabet == "ABCDEFGHIJKLMNOPQRSTUVWXYZÀÂÇÉÈÊÎÔÛ"
LowerAlphabet == "abcdefghijklmnopqrstuvwxyzàâçéèêîôû"

MapChar(c, from, to) ==
    IF \E i \in 1..Len(from) : Char(from, i) = c
    THEN Char(to, CHOOSE i \in 1..Len(from) : Char(from, i) = c)
    ELSE c

RECURSIVE MapFrom(_, _, _, _)
MapFrom(s, i, from, to) ==
    IF i > Len(s) THEN ""
    ELSE MapChar(Char(s, i), from, to) \o MapFrom(s, i + 1, from, to)

\* s.lower(), s.upper()
Lower(s) == MapFrom(s, 1, UpperAlphabet, LowerAlphabet)
Upper(s) == MapFrom(s, 1, LowerAlphabet, UpperAlphabet)

IsSpace(c) == c \in {" ", "\t", "\n", "\r"}
IsDigit(c) == c \in {"0", "1", "2", "3", "4", "5", "6", "7", "8", "9"}

\* s.strip() == ""
IsBlank(s) == \A i \in 1..Len(s) : IsSpace(Char(s, i))

\* sep.join(parts), parts a sequence of strings
RECURSIVE Join(_, _)
Join(sep, parts) ==
    IF Len(parts) = 0 THEN ""
    ELSE IF Len(parts) = 1 THEN parts[1]
    ELSE parts[1] \o sep \o Join(sep, Tail(parts))

\* s.split(): the maximal runs of non-space characters, in order
RECURSIVE SplitFrom(_, _, _)
SplitFrom(s, i, word) ==
    IF i > Len(s) THEN (IF word = "" THEN <<>> ELSE <<word>>)
    ELSE IF IsSpace(Char(s, i))
    THEN (IF word = "" THEN <<>> ELSE <<word>>) \o SplitFrom(s, i + 1, "")
    ELSE SplitFrom(s, i + 1, word \o Char(s, i))

Split(s) == SplitFrom(s, 1, "")

\* the elements of a Python list of str, as a sequence of strings
Strs(v) == [i \in 1..Len(v.l) |-> Str(v.l[i])]

\* a Python list of str from a sequence of strings
PyStrList(q) == PyList([i \in 1..Len(q) |-> PyStr(q[i])])

\* q[:n]
Take(q, n) == SubSeq(q, 1, Min(n, Len(q)))

-----------------------------------------------------------------------------
(* LLMWatchExtractor: src/src/llm_watch_extractor.py *)

\* the dataclass defaults, before __post_init__
LLMWatchInfoDefaults ==
    [brand |-> PyNone, model |-> PyNone, reference |-> PyNone, collection |-> PyNone,
     price |-> PyNone, currency |-> PyStr("EUR"), price_type |-> PyNone,
     original_price |-> PyNone,
     condition |-> PyNone, condition_details |-> PyNone, year |-> PyNone,
     age_category |-> PyNone,
     size |-> PyNone, movement_type |-> PyNone, material |-> PyNone, dial_color |-> PyNone,
     has_box |-> PyNone, has_papers |-> PyNone, has_warranty |-> PyNone,
     authenticity_mentioned |-> PyFalse, accessories_list |-> PyNone,
     seller_type |-> PyNone, location |-> PyNone, shipping_available |-> PyNone,
     shipping_details |-> PyNone,
     message_type |-> PyStr("general"), urgency_level |-> PyNum(0), negotiable |-> PyNone,
     seller_motivation |-> PyNone, investment_mention |-> PyNone,
     confidence_score |-> PyNum(0), extraction_method |-> PyStr("llm"),
     extracted_text_segments |-> PyNone, llm_reasoning |-> PyNone]

\* LLMWatchInfo(**given): the given fields over the defaults, then __post_init__
LLMWatchInfo(given) ==
    LET r == given @@ LLMWatchInfoDefaults
    IN  PyObj("LLMWatchInfo",
          [r EXCEPT
            !.accessories_list =
                IF r.accessories_list.t = "none" THEN PyList(EmptyList) ELSE @,
            !.extracted_text_segments =
                IF r.extracted_text_segments.t = "none" THEN PyList(EmptyList) ELSE @])

\* hashlib.md5(s.encode()).hexdigest(): distinct strings are taken to have
\* distinct digests, so the digest is modelled by a tagged copy of its input
md5_hexdigest(s) == "md5:" \o s

\* cache_content, the string that is hashed
cache_content(message_content, whatsapp_metadata) ==
    LET with_meta ==
            message_content
                \o Str(Get(whatsapp_metadata, "sender_profile_name", PyStr("")))
                \o Str(Get(whatsapp_metadata, "is_group_message", PyFalse))
    IN  IF Truthy(whatsapp_metadata) THEN with_meta ELSE message_content

_generate_cache_key(message_content, whatsapp_metadata) ==
    md5_hexdigest(cache_content(message_content, whatsapp_metadata))

\* _create_extraction_prompt: the prompt is a fixed text around the message
\* and the context block; it is given by these two.  The context block is
\* empty without metadata, else it shows the sender, 'Oui' or 'Non' for the
\* group flag, and the intent signals.
_create_extraction_prompt(message_content, whatsapp_metadata) ==
    [message |-> message_content,
     context_info |->
        IF ~Truthy(whatsapp_metadata) THEN <<>>
        ELSE <<Str(Get(whatsapp_metadata, "sender_profile_name", PyStr("Inconnu"))),
               IF Truthy(Get(whatsapp_metadata, "is_group_message", PyNone))
               THEN "Oui" ELSE "Non",
               Get(Get(whatsapp_metadata, "semantic_metadata", PyDict(EmptyDict)),
                   "intent_signals", PyDict(EmptyDict))>>]

\* the four nested groups are read with .get, so each must be a dict
ConvertRaises(llm_response) ==
    \/ ~HasGet(llm_response)
    \/ \E g \in {"watch_details", "accessories", "sale_info", "extraction_metadata"} :
          ~HasGet(Get(llm_response, g, PyDict(EmptyDict)))

\* the record built in the except branch of the conversion
ConversionErrorRecord ==
    LLMWatchInfo([confidence_score |-> PyNum(0),
                  llm_reasoning |-> PyStr("Erreur de conversion: AttributeError")])

ConvertedRecord(llm_response) ==
    LET watch_details == Get(llm_response, "watch_details", PyDict(EmptyDict))
        accessories == Get(llm_response, "accessories", PyDict(EmptyDict))
        sale_info == Get(llm_response, "sale_info", PyDict(EmptyDict))
        metadata == Get(llm_response, "extraction_metadata", PyDict(EmptyDict))
    IN  LLMWatchInfo(
          [brand |-> Get(watch_details, "brand", PyNone),
           model |-> Get(watch_details, "model", PyNone),
           reference |-> Get(watch_details, "reference", PyNone),
           collection |-> Get(watch_details, "collection", PyNone),
           price |-> Get(watch_details, "price", PyNone),
           currency |-> Get(watch_details, "currency", PyStr("EUR")),
           price_type |-> Get(watch_details, "price_type", PyNone),
           condition |-> Get(watch_details, "condition", PyNone),
           condition_details |-> Get(watch_details, "condition_details", PyNone),
           year |-> Get(watch_details, "year", PyNone),
           size |-> Get(watch_details, "size", PyNone),
           movement_type |-> Get(watch_details, "movement_type", PyNone),
           material |-> Get(watch_details, "material", PyNone),
           dial_color |-> Get(watch_details, "dial_color", PyNone),
           has_box |-> Get(accessories, "has_box", PyNone),
           has_papers |-> Get(accessories, "has_papers", PyNone),
           has_warranty |-> Get(accessories, "has_warranty", PyNone),
           authenticity_mentioned |-> Get(accessories, "authenticity_mentioned", PyFalse),
           accessories_list |-> Get(accessories, "accessories_list", PyList(EmptyList)),
           message_type |-> Get(sale_info, "message_type", PyStr("general")),
           seller_type |-> Get(sale_info, "seller_type", PyNone),
           location |-> Get(sale_info, "location", PyNone),
           shipping_available |-> Get(sale_info, "shipping_available", PyNone),
           urgency_level |-> Get(sale_info, "urgency_level", PyNum(0)),
           negotiable |-> Get(sale_info, "negotiable", PyNone),
           seller_motivation |-> Get(sale_info, "seller_motivation", PyNone),
           confidence_score |-> Get(metadata, "confidence_score", PyNum(0)),
           extraction_method |-> PyStr("llm"),
           extracted_text_segments |-> Get(metadata, "extracted_segments", PyList(EmptyList)),
           llm_reasoning |-> Get(metadata, "reasoning", PyNone)])

_convert_llm_response_to_watch_info(llm_response) ==
    IF ConvertRaises(llm_response)
    THEN ConversionErrorRecord
    ELSE ConvertedRecord(llm_response)

\* the record returned by the except branch of extract_watch_info
ExtractionErrorRecordNoReason(e) ==
    LLMWatchInfo([confidence_score |-> PyNum(0)])

ExtractionErrorRecord(e) ==
    LLMWatchInfo([confidence_score |-> PyNum(0),
                  llm_reasoning |-> PyStr("Erreur d'extraction: " \o e)])

(* The try block of extract_watch_info.  completion is what the external    *)
(* service does if it is called: [raises, err, parses, json]: it raises     *)
(* err, or returns a content that json.loads rejects (parses = FALSE), or   *)
(* returns a content that json.loads turns into the value json.             *)
(* Result: exc is "" or the exception that left the block, val the value    *)
(* returned, cache the cache afterwards, called whether the service was     *)
(* called.                                                                  *)
ExtractTry(cache, message_content, whatsapp_metadata, completion) ==
    LET cache_key == _generate_cache_key(message_content, whatsapp_metadata)
        watch_info == _convert_llm_response_to_watch_info(completion.json)
        cached == (cache_key :> watch_info) @@ cache
    IN  IF cache_key \in DOMAIN cache
        THEN [exc |-> "", val |-> cache[cache_key], cache |-> cache, called |-> FALSE]
        ELSE IF completion.raises
        THEN [exc |-> completion.err, val |-> PyNone, cache |-> cache, called |-> TRUE]
        ELSE IF ~completion.parses
        THEN [exc |-> "JSONDecodeError", val |-> PyNone, cache |-> cache, called |-> TRUE]
        ELSE IF FormatFloatRaises(Attr(watch_info, "confidence_score"))
        THEN [exc |-> "format", val |-> PyNone, cache |-> cached, called |-> TRUE]
        ELSE [exc |-> "", val |-> watch_info, cache |-> cached, called |-> TRUE]

\* LLMWatchExtractor.extract_watch_info: [ret, raised, cache, called]
LLM_extract_watch_info(cache, message_content, whatsapp_metadata, completion) ==
    LET b == ExtractTry(cache, message_content, whatsapp_metadata, completion)
    IN  [ret |-> IF b.exc = "" THEN b.val ELSE ExtractionErrorRecord(b.exc),
         raised |-> FALSE,
         cache |-> b.cache,
         called |-> b.called]

-----------------------------------------------------------------------------
(* Regular-expression matching, as far as the patterns of the extractor     *)
(* need it.  \d and \s are taken over the ASCII digits and blanks.          *)

\* s[i] (1-based), "" outside the string
At(s, i) == IF 1 <= i /\ i <= Len(s) THEN SubSeq(s, i, i) ELSE ""

Chars(alphabet) == {SubSeq(alphabet, k, k) : k \in 1..Len(alphabet)}

Digits == Chars("0123456789")
Spaces == {" ", "\t", "\n", "\r"}
ColonSpaces == Spaces \cup {":"}
AsciiLetters == Chars("abcdefghijklmnopqrstuvwxyzABCDEFGHIJKLMNOPQRSTUVWXYZ")
Letters == Chars(UpperAlphabet) \cup Chars(LowerAlphabet)
WordChars == Letters \cup Digits \cup {"_"}

\* the length of the longest run of characters of C that starts at s[i]
RECURSIVE RunLen(_, _, _)
RunLen(s, i, C) == IF At(s, i) \in C THEN 1 + RunLen(s, i + 1, C) ELSE 0

\* the literal lit (lower case) stands at s[i], whatever the case
MatchAt(s, i, lit) ==
    /\ i >= 1
    /\ i + Len(lit) - 1 <= Len(s)
    /\ Lower(SubSeq(s, i, i + Len(lit) - 1)) = lit

NoMatch == [found |-> FALSE, g0 |-> "", g1 |-> ""]

\* (\d{lo,hi})\s*lit matched at s[i], n the number of digits taken
NumThenLitAt(s, i, n, lo, lit) ==
    IF n >= lo /\ MatchAt(s, i + n + RunLen(s, i + n, Spaces), lit)
    THEN [found |-> TRUE,
          g0 |-> SubSeq(s, i, i + n + RunLen(s, i + n, Spaces) + Len(lit) - 1),
          g1 |-> SubSeq(s, i, i + n - 1)]
    ELSE NoMatch

\* re.search(r'(\d{lo,hi})\s*lit', s[i-1:], re.IGNORECASE): the leftmost match
RECURSIVE NumThenLitFrom(_, _, _, _, _)
NumThenLitFrom(s, i, lo, hi, lit) ==
    IF i > Len(s) THEN NoMatch
    ELSE IF /\ At(s, i) \in Digits
            /\ NumThenLitAt(s, i, Min(hi, RunLen(s, i, Digits)), lo, lit).found
    THEN NumThenLitAt(s, i, Min(hi, RunLen(s, i, Digits)), lo, lit)
    ELSE NumThenLitFrom(s, i + 1, lo, hi, lit)

NumThenLit(s, lo, hi, lit) == NumThenLitFrom(s, 1, lo, hi, lit)

\* lit C*(\d{lo,hi}) matched at s[i], the digits starting at s[k]; C holds
\* no digit
LitThenNumAt(s, i, k, lo, hi) ==
    IF At(s, k) \in Digits /\ RunLen(s, k, Digits) >= lo
    THEN [found |-> TRUE,
          g0 |-> SubSeq(s, i, k + Min(hi, RunLen(s, k, Digits)) - 1),
          g1 |-> SubSeq(s, k, k + Min(hi, RunLen(s, k, Digits)) - 1)]
    ELSE NoMatch

\* re.search(r'lit C*(\d{lo,hi})', s[i-1:], re.IGNORECASE)
RECURSIVE LitThenNumFrom(_, _, _, _, _, _)
LitThenNumFrom(s, i, lit, C, lo, hi) ==
    IF i > Len(s) THEN NoMatch
    ELSE IF /\ MatchAt(s, i, lit)
            /\ LitThenNumAt(s, i, i + Len(lit) + RunLen(s, i + Len(lit), C), lo, hi).found
    THEN LitThenNumAt(s, i, i + Len(lit) + RunLen(s, i + Len(lit), C), lo, hi)
    ELSE LitThenNumFrom(s, i + 1, lit, C, lo, hi)

LitThenNum(s, lit, C, lo, hi) == LitThenNumFrom(s, 1, lit, C, lo, hi)

\* (\d{1,6})[,.](\d{2})\s*€ matched at s[i], n digits before the separator
CentsAt(s, i, n) ==
    IF /\ At(s, i + n) \in {",", "."}
       /\ At(s, i + n + 1) \in Digits
       /\ At(s, i + n + 2) \in Digits
       /\ MatchAt(s, i + n + 3 + RunLen(s, i + n + 3, Spaces), "€")
    THEN [found |-> TRUE,
          g0 |-> SubSeq(s, i, i + n + 3 + RunLen(s, i + n + 3, Spaces)),
          g1 |-> SubSeq(s, i, i + n - 1)]
    ELSE NoMatch

\* re.search(r'(\d{1,6})[,.](\d{2})\s*€', s[i-1:], re.IGNORECASE)
RECURSIVE CentsFrom(_, _)
CentsFrom(s, i) ==
    IF i > Len(s) THEN NoMatch
    ELSE IF /\ At(s, i) \in Digits
            /\ CentsAt(s, i, Min(6, RunLen(s, i, Digits))).found
    THEN CentsAt(s, i, Min(6, RunLen(s, i, Digits)))
    ELSE CentsFrom(s, i + 1)

Cents(s) == CentsFrom(s, 1)

\* the end of (?:\s+[A-Z][a-z]+)* matched greedily from position e
RECURSIVE WordsEnd(_, _)
WordsEnd(s, e) ==
    IF /\ At(s, e) \in Spaces
       /\ RunLen(s, e + RunLen(s, e, Spaces), AsciiLetters) >= 2
    THEN WordsEnd(s, e + RunLen(s, e, Spaces)
                       + RunLen(s, e + RunLen(s, e, Spaces), AsciiLetters))
    ELSE e

\* a word [A-Z][a-z]+ at s[k], followed by more words if more is set: the
\* match that starts at s[i]
WordsAt(s, i, k, more) ==
    IF RunLen(s, k, AsciiLetters) >= 2
    THEN [found |-> TRUE,
          g0 |-> SubSeq(s, i, (IF more THEN WordsEnd(s, k + RunLen(s, k, AsciiLetters))
                               ELSE k + RunLen(s, k, AsciiLetters)) - 1),
          g1 |-> SubSeq(s, k, (IF more THEN WordsEnd(s, k + RunLen(s, k, AsciiLetters))
                               ELSE k + RunLen(s, k, AsciiLetters)) - 1)]
    ELSE NoMatch

\* re.search(r'lit[:\s]*([A-Z][a-z]+)', s[i-1:], re.IGNORECASE)
RECURSIVE LitThenWordFrom(_, _, _)
LitThenWordFrom(s, i, lit) ==
    IF i > Len(s) THEN NoMatch
    ELSE IF /\ MatchAt(s, i, lit)
            /\ WordsAt(s, i, i + Len(lit) + RunLen(s, i + Len(lit), ColonSpaces), FALSE).found
    THEN WordsAt(s, i, i + Len(lit) + RunLen(s, i + Len(lit), ColonSpaces), FALSE)
    ELSE LitThenWordFrom(s, i + 1, lit)

LitThenWord(s, lit) == LitThenWordFrom(s, 1, lit)

\* (?:à|in|from|de)\s+(words) matched at s[i] with the alternative alt
PlaceAt(s, i, alt) ==
    IF MatchAt(s, i, alt) /\ At(s, i + Len(alt)) \in Spaces
    THEN WordsAt(s, i, i + Len(alt) + RunLen(s, i + Len(alt), Spaces), TRUE)
    ELSE NoMatch

\* the alternatives, in the order written; no two can match at one position
PlaceAlternatives == <<"à", "in", "from", "de">>

PlaceHere(s, i) ==
    IF PlaceAt(s, i, PlaceAlternatives[1]).found THEN PlaceAt(s, i, PlaceAlternatives[1])
    ELSE IF PlaceAt(s, i, PlaceAlternatives[2]).found THEN PlaceAt(s, i, PlaceAlternatives[2])
    ELSE IF PlaceAt(s, i, PlaceAlternatives[3]).found THEN PlaceAt(s, i, PlaceAlternatives[3])
    ELSE PlaceAt(s, i, PlaceAlternatives[4])

\* re.search(r'(?:à|in|from|de)\s+([A-Z][a-z]+(?:\s+[A-Z][a-z]+)*)', s[i-1:], re.IGNORECASE)
RECURSIVE PlaceFrom(_, _)
PlaceFrom(s, i) ==
    IF i > Len(s) THEN NoMatch
    ELSE IF PlaceHere(s, i).found THEN PlaceHere(s, i)
    ELSE PlaceFrom(s, i + 1)

Place(s) == PlaceFrom(s, 1)

\* the first match of a list of searches, tried in order
RECURSIVE FirstMatch(_)
FirstMatch(ms) ==
    IF Len(ms) = 0 THEN NoMatch
    ELSE IF Head(ms).found THEN Head(ms)
    ELSE FirstMatch(Tail(ms))

\* int(s) for a string of digits
RECURSIVE ToNat(_)
ToNat(s) ==
    IF Len(s) = 0 THEN 0
    ELSE 10 * ToNat(SubSeq(s, 1, Len(s) - 1))
         + (CHOOSE d \in 0..9 : ToString(d) = SubSeq(s, Len(s), Len(s)))

\* s.lstrip(), s.rstrip(), s.strip()
RECURSIVE LStrip(_)
LStrip(s) == IF At(s, 1) \in Spaces THEN LStrip(SubSeq(s, 2, Len(s))) ELSE s

RECURSIVE RStrip(_)
RStrip(s) == IF At(s, Len(s)) \in Spaces THEN RStrip(SubSeq(s, 1, Len(s) - 1)) ELSE s

Strip(s) == RStrip(LStrip(s))

\* s.find(p, i - 1), 1-based, 0 when p does not occur
RECURSIVE FindFrom(_, _, _)
FindFrom(s, p, i) ==
    IF i + Len(p) - 1 > Len(s) THEN 0
    ELSE IF SubSeq(s, i, i + Len(p) - 1) = p THEN i
    ELSE FindFrom(s, p, i + 1)

Find(s, p) == FindFrom(s, p, 1)

\* s.title(): each run of letters starts upper case and goes on lower case
RECURSIVE TitleFrom(_, _)
TitleFrom(s, i) ==
    IF i > Len(s) THEN ""
    ELSE (IF At(s, i - 1) \in Letters THEN Lower(At(s, i)) ELSE Upper(At(s, i)))
         \o TitleFrom(s, i + 1)

Title(s) == TitleFrom(s, 1)

-----------------------------------------------------------------------------
(* WatchInfoExtractor: src/src/watch_info_extractor.py                      *)
(* Scores are in hundredths, prices in whole currency units.                *)

WatchInfoDefaults ==
    [brand |-> PyNone, model |-> PyNone, reference |-> PyNone, price |-> PyNone,
     currency |-> PyStr("EUR"), price_type |-> PyNone, condition |-> PyNone,
     year |-> PyNone, size |-> PyNone, movement_type |-> PyNone,
     authenticity_mentioned |-> PyFalse, location |-> PyNone,
     message_type |-> PyStr("general"), keywords |-> PyList(EmptyList),
     confidence_score |-> PyNum(0)]

WatchInfo(fields) == PyObj("WatchInfo", fields)

\* the members of self.watch_brands, as written
watch_brands ==
    <<"rolex", "omega", "seiko", "casio", "citizen", "tissot",
      "tag heuer", "breitling", "iwc", "cartier", "patek philippe",
      "audemars piguet", "vacheron constantin", "jaeger-lecoultre",
      "panerai", "hublot", "zenith", "tudor", "longines", "hamilton",
      "oris", "frederique constant", "mont blanc", "baume mercier",
      "chopard", "maurice lacroix", "mido", "swatch", "fossil",
      "diesel", "armani", "michael kors", "daniel wellington",
      "mvmt", "garmin", "suunto", "apple watch", "samsung gear">>

Reverse(q) == [i \in 1..Len(q) |-> q[Len(q) + 1 - i]]

\* Iteration orders of the set self.watch_brands.  The order of a set of str
\* is fixed for one process and differs between processes (hash seed).
BrandOrders == {watch_brands, Reverse(watch_brands)}

\* order is the iteration order of self.watch_brands
RECURSIVE _extract_brand(_, _)
_extract_brand(order, message) ==
    IF Len(order) = 0 THEN PyNone
    ELSE IF Contains(message, Head(order)) THEN PyStr(Title(Head(order)))
    ELSE _extract_brand(Tail(order), message)

\* the words kept of the three that follow the brand found at brand_pos
ModelWords(message, brand, brand_pos) ==
    SelectSeq(Take(Split(Strip(Suffix(message, brand_pos - 1 + Len(brand.s)))), 3),
              LAMBDA word :
                  ~ContainsAny(Lower(word), <<"prix", "euro", "€", "vend", "cherche">>))

_extract_model(message, brand) ==
    IF ~Truthy(brand) THEN PyNone
    ELSE CHOOSE model \in
            {IF brand_pos = 0 THEN PyNone
             ELSE IF Len(model_words) > 0 THEN PyStr(Join(" ", model_words))
             ELSE PyNone :
               brand_pos \in {Find(Lower(message), Lower(brand.s))},
               model_words \in {ModelWords(message, brand,
                                           Find(Lower(message), Lower(brand.s)))}} : TRUE

\* the first of self.price_patterns that matches, with its match
PriceMatch(message) ==
    FirstMatch(
        <<NumThenLit(message, 1, 6, "€"),
          LitThenNum(message, "€", Spaces, 1, 6),
          NumThenLit(message, 1, 6, "eur"),
          NumThenLit(message, 1, 6, "dollar"),
          LitThenNum(message, "$", Spaces, 1, 6),
          NumThenLit(message, 1, 6, "chf"),
          NumThenLit(message, 1, 6, "£"),
          LitThenNum(message, "£", Spaces, 1, 6),
          LitThenNum(message, "prix", ColonSpaces, 1, 6),
          Cents(message)>>)

\* the dict _extract_price builds from the match found
PriceOf(message, match) ==
    LET g0 == match.g0
        lower == Lower(message)
    IN  IF match.found
        THEN [amount |-> PyNum(ToNat(match.g1)),
              currency |->
                  IF Contains(g0, "€") \/ Contains(Lower(g0), "eur") THEN PyStr("EUR")
                  ELSE IF Contains(g0, "$") \/ Contains(Lower(g0), "dollar") THEN PyStr("USD")
                  ELSE IF Contains(g0, "£") THEN PyStr("GBP")
                  ELSE IF Contains(Lower(g0), "chf") THEN PyStr("CHF")
                  ELSE PyStr("EUR"),
              type |->
                  IF Contains(lower, "vendu") \/ Contains(lower, "sold") THEN PyStr("sold")
                  ELSE IF Contains(lower, "négociable") \/ Contains(lower, "obo")
                  THEN PyStr("negotiable")
                  ELSE PyStr("asking")]
        ELSE [amount |-> PyNone, currency |-> PyStr("EUR"), type |-> PyStr("asking")]

_extract_price(message) ==
    CHOOSE price_data \in {PriceOf(message, match) : match \in {PriceMatch(message)}} : TRUE

\* the first key of an ordered table of keyword lists with a keyword in message
RECURSIVE FirstKey(_, _)
FirstKey(table_, message) ==
    IF Len(table_) = 0 THEN PyNone
    ELSE IF ContainsAny(message, Head(table_)[2]) THEN PyStr(Head(table_)[1])
    ELSE FirstKey(Tail(table_), message)

_extract_condition(message) ==
    FirstKey(<< <<"neuf", <<"neuf", "new", "jamais porté", "unworn", "bnib", "brand new">> >>,
                <<"excellent", <<"excellent", "très bon état", "excellent condition", "mint">> >>,
                <<"bon", <<"bon état", "good condition", "bel état", "bien conservé">> >>,
                <<"occasion", <<"occasion", "used", "porté", "worn", "pre-owned">> >>,
                <<"vintage", <<"vintage", "ancien", "collection", "rare">> >>,
                <<"box_papers", <<"box", "papers", "boite", "papiers", "certificat",
                                  "garantie">> >> >>,
             message)

_extract_size(message) ==
    CHOOSE size \in
        {IF match.found THEN PyStr(match.g1 \o "mm") ELSE PyNone :
           match \in {FirstMatch(
               <<NumThenLit(message, 2, 2, "mm"),
                 NumThenLit(message, 2, 2, "mm"),
                 LitThenNum(message, "diamètre", ColonSpaces, 2, 2),
                 LitThenNum(message, "taille", ColonSpaces, 2, 2)>>)}} : TRUE

_extract_movement(message) ==
    FirstKey(<< <<"automatic", <<"automatique", "automatic", "auto", "self-winding">> >>,
                <<"quartz", <<"quartz", "électronique", "electronic">> >>,
                <<"manual", <<"manuel", "manual", "mécanique", "mechanical",
                              "hand-wind">> >> >>,
             message)

\* re.search(r'\b(19\d{2}|20[0-3]\d)\b', message)
YearAt(s, i) ==
    /\ At(s, i - 1) \notin WordChars
    /\ \/ SubSeq(s, i, Min(i + 1, Len(s))) = "19" /\ At(s, i + 2) \in Digits
       \/ SubSeq(s, i, Min(i + 1, Len(s))) = "20" /\ At(s, i + 2) \in {"0", "1", "2", "3"}
    /\ At(s, i + 3) \in Digits
    /\ At(s, i + 4) \notin WordChars

\* the start of the leftmost match at or after s[i], 0 when there is none
RECURSIVE YearFrom(_, _)
YearFrom(s, i) ==
    IF i > Len(s) THEN 0
    ELSE IF YearAt(s, i) THEN i
    ELSE YearFrom(s, i + 1)

_extract_year(message) ==
    CHOOSE year \in
        {IF i = 0 THEN PyNone
         ELSE IF 1900 <= ToNat(SubSeq(message, i, i + 3))
                 /\ ToNat(SubSeq(message, i, i + 3)) <= 2030
         THEN PyNum(ToNat(SubSeq(message, i, i + 3)))
         ELSE PyNone : i \in {YearFrom(message, 1)}} : TRUE

_extract_location(message) ==
    CHOOSE location \in
        {IF match.found THEN PyStr(Strip(match.g1)) ELSE PyNone :
           match \in {FirstMatch(
               <<Place(message),
                 LitThenWord(message, "livraison"),
                 LitThenWord(message, "shipping"),
                 LitThenWord(message, "dispo")>>)}} : TRUE

_classify_message_type(message) ==
    IF ContainsAny(message, <<"vend", "vends", "à vendre", "for sale", "sell", "prix">>)
    THEN "sale"
    ELSE IF ContainsAny(message, <<"cherche", "recherche", "wanted", "wtb", "looking for">>)
    THEN "wanted"
    ELSE IF ContainsAny(message, <<"échange", "trade", "swap", "troc">>)
    THEN "trade"
    ELSE IF ContainsAny(message, <<"?", "question", "avis", "opinion", "help">>)
    THEN "question"
    ELSE "general"

_extract_keywords(message) ==
    Occurring(message,
        <<"cadran", "bracelet", "boitier", "lunette", "couronne",
          "dial", "strap", "case", "bezel", "crown", "crystal",
          "chrono", "gmt", "diver", "dress", "sport", "limited",
          "édition limitée", "rare", "collection">>)

_detect_authenticity(message) ==
    ContainsAny(message,
        <<"certificat", "authentique", "authentic", "genuine",
          "papers", "papiers", "garantie", "warranty", "box">>)

\* info is the field record of a WatchInfo
UncappedConfidenceScore(info) ==
    (IF Truthy(info.brand) THEN 30 ELSE 0)
    + (IF Truthy(info.model) THEN 20 ELSE 0)
    + (IF Truthy(info.price) THEN 20 ELSE 0)
    + (IF Truthy(info.condition) THEN 10 ELSE 0)
    + (IF Truthy(info.size) THEN 10 ELSE 0)
    + (IF Truthy(info.year) THEN 10 ELSE 0)

_calculate_confidence_score(info) == Min(UncappedConfidenceScore(info), 100)

\* the fields set by the try block before the score, from the values found
FieldsFound(message, message_lower, brand, price_data) ==
    [brand |-> brand,
     model |-> _extract_model(message, brand),
     reference |-> PyNone,
     price |-> price_data.amount,
     currency |-> price_data.currency,
     price_type |-> price_data.type,
     condition |-> _extract_condition(message_lower),
     year |-> _extract_year(message),
     size |-> _extract_size(message),
     movement_type |-> _extract_movement(message_lower),
     authenticity_mentioned |-> PyBool(_detect_authenticity(message_lower)),
     location |-> _extract_location(message),
     message_type |-> PyStr(_classify_message_type(message_lower)),
     keywords |-> PyStrList(_extract_keywords(message_lower)),
     confidence_score |-> PyNum(0)]

\* WatchInfoExtractor.extract_watch_info: [ret, raised].  message is a Python
\* value; message.lower() stands before the try and raises for a non-str.
Regex_extract_watch_info(order, message) ==
    IF message.t # "str" THEN [ret |-> PyNone, raised |-> TRUE]
    ELSE CHOOSE result \in
            {[ret |-> WatchInfo([info EXCEPT
                        !.confidence_score = PyNum(_calculate_confidence_score(info))]),
              raised |-> FALSE] :
               info \in {FieldsFound(message.s, message_lower, brand, price_data) :
                           message_lower \in {Lower(message.s)},
                           brand \in {_extract_brand(order, Lower(message.s))},
                           price_data \in {_extract_price(message.s)}}} : TRUE

-----------------------------------------------------------------------------
(* EmbeddingProcessor: src/src/embedding_processor.py *)

max_length == 8000
embedding_dimension == 1536

\* detected_intents: the names of the intent signals that are set, in the
\* order the code tests them
DetectedIntents(metadata) ==
    LET semantic_metadata == Get(metadata, "semantic_metadata", PyDict(EmptyDict))
        intent_signals == Get(semantic_metadata, "intent_signals", PyDict(EmptyDict))
    IN  (IF Truthy(Get(intent_signals, "is_selling", PyNone)) THEN <<"VENTE">> ELSE <<>>)
        \o (IF Truthy(Get(intent_signals, "is_seeking", PyNone)) THEN <<"RECHERCHE">> ELSE <<>>)
        \o (IF Truthy(Get(intent_signals, "is_question", PyNone)) THEN <<"QUESTION">> ELSE <<>>)
        \o (IF Truthy(Get(intent_signals, "has_urgency", PyNone)) THEN <<"URGENT">> ELSE <<>>)

\* enhanced_parts[1:]: the tags appended after the original text, in order
\* (metadata is a non-empty dict)
EnhancedTags(metadata) ==
    LET group_name == Get(metadata, "sender_profile_name", PyStr("Groupe"))
        group_indicators == Get(metadata, "group_context_indicators", PyList(EmptyList))
        sender_name == PyOr(Get(metadata, "sender_formatted_name", PyNone),
                            Get(metadata, "sender_profile_name", PyNone))
        semantic_metadata == Get(metadata, "semantic_metadata", PyDict(EmptyDict))
        text_analysis == Get(semantic_metadata, "text_analysis", PyDict(EmptyDict))
        language_hints == Get(text_analysis, "language_hints", PyList(EmptyList))
        timing == Get(semantic_metadata, "timing", PyDict(EmptyDict))
        conversation == Get(semantic_metadata, "conversation", PyDict(EmptyDict))
        detected_intents == DetectedIntents(metadata)
        commercial_context ==
            (IF Truthy(Get(text_analysis, "has_price", PyNone)) THEN <<"PRIX">> ELSE <<>>)
            \o (IF Truthy(Get(text_analysis, "has_phone", PyNone)) THEN <<"CONTACT">> ELSE <<>>)
            \o (IF Truthy(Get(text_analysis, "has_urls", PyNone)) THEN <<"LIEN">> ELSE <<>>)
        group_part ==
            IF Truthy(Get(metadata, "is_group_message", PyNone))
            THEN <<"[GROUPE: " \o Str(group_name) \o "]">>
                 \o (IF Truthy(group_indicators)
                     THEN <<"[CONTEXTE: " \o Join(", ", Take(Strs(group_indicators), 2)) \o "]">>
                     ELSE <<>>)
            ELSE <<>>
    IN  group_part
        \o (IF Truthy(sender_name) THEN <<"[EXPÉDITEUR: " \o Str(sender_name) \o "]">> ELSE <<>>)
        \o (IF Len(detected_intents) > 0
            THEN <<"[INTENTION: " \o Join(", ", detected_intents) \o "]">> ELSE <<>>)
        \o (IF Len(commercial_context) > 0
            THEN <<"[COMMERCIAL: " \o Join(", ", commercial_context) \o "]">> ELSE <<>>)
        \o (IF Truthy(language_hints)
            THEN <<"[LANGUE: " \o Upper(Str(language_hints.l[1])) \o "]">> ELSE <<>>)
        \o (IF Truthy(Get(timing, "is_business_hours", PyNone))
            THEN <<"[HEURES_OUVRABLES]">> ELSE <<>>)
        \o (IF Truthy(Get(conversation, "is_reply", PyNone)) THEN <<"[RÉPONSE]">> ELSE <<>>)
        \o (IF Truthy(Get(conversation, "has_context", PyNone)) THEN <<"[THREAD]">> ELSE <<>>)

\* a slip that keeps every detected intent in the over-length branch
PriorityTagsAllIntents(metadata) ==
    (IF Truthy(Get(metadata, "is_group_message", PyNone))
     THEN <<"[GROUPE: " \o Str(Get(metadata, "sender_profile_name", PyStr("Groupe"))) \o "]">>
     ELSE <<>>)
    \o (IF Len(DetectedIntents(metadata)) > 0
        THEN <<"[INTENTION: " \o Join(", ", DetectedIntents(metadata)) \o "]">>
        ELSE <<>>)

\* priority_metadata of the over-length branch
PriorityTags(metadata) ==
    (IF Truthy(Get(metadata, "is_group_message", PyNone))
     THEN <<"[GROUPE: " \o Str(Get(metadata, "sender_profile_name", PyStr("Groupe"))) \o "]">>
     ELSE <<>>)
    \o (IF Len(DetectedIntents(metadata)) > 0
        THEN <<"[INTENTION: " \o DetectedIntents(metadata)[1] \o "]">>
        ELSE <<>>)

\* EmbeddingProcessor._create_enhanced_text_for_embedding
_create_enhanced_text_for_embedding(original_text, metadata) ==
    IF ~Truthy(metadata)
    THEN original_text
    ELSE LET enhanced_text == Join(" ", <<original_text>> \o EnhancedTags(metadata))
         IN  IF Len(enhanced_text) > max_length
             THEN Prefix(original_text \o " " \o Join(" ", PriorityTags(metadata)), max_length)
             ELSE enhanced_text

-----------------------------------------------------------------------------
(* Context enrichment of a webhook message: src/app.py *)

\* the number of strings of the sequence ws that occur in s
CountIn(s, ws) == Cardinality({k \in 1..Len(ws) : Contains(s, ws[k])})

\* the number of digits of s
DigitCount(s) == Cardinality({i \in 1..Len(s) : IsDigit(Char(s, i))})

_detect_group_message(sender_wa_id, contact_info, context_info) ==
    LET profile_name ==
            Lower(Str(Get(Get(contact_info, "profile", PyDict(EmptyDict)), "name", PyStr(""))))
        group_indicators ==
            <<"groupe", "group", "team", "équipe", "vente", "montres", "rolex", "watch">>
    IN  IF Contains(sender_wa_id, "@g.us") THEN TRUE
        ELSE IF /\ Truthy(context_info)
                /\ \/ Truthy(Get(context_info, "from", PyNone))
                   \/ Truthy(Get(context_info, "id", PyNone))
        THEN TRUE
        ELSE ContainsAny(profile_name, group_indicators)

_extract_group_indicators(message_text) ==
    Occurring(Lower(message_text),
              <<"dans le groupe", "groupe", "@", "cc:", "tous:", "hello tous",
                "salut les amis", "bonjour à tous", "qui est intéressé",
                "quelqu'un pour", "membres du groupe">>)

_detect_language_hints(text) ==
    LET text_lower == Lower(text)
        french_count == CountIn(text_lower,
            <<"bonjour", "merci", "très", "avec", "pour", "dans", "sur", "est", "une", "des">>)
        english_count == CountIn(text_lower,
            <<"hello", "thank", "very", "with", "for", "in", "on", "is", "the", "and">>)
    IN  IF french_count > english_count THEN <<"french">>
        ELSE IF english_count > french_count THEN <<"english">>
        ELSE <<>>

\* now is the wall clock read by datetime.now(): [iso, hour, weekday]
_create_semantic_metadata(sender_wa_id, contact_info, message_text, context_info, now) ==
    LET profile == Get(contact_info, "profile", PyDict(EmptyDict))
        lower == Lower(message_text)
    IN  PyDict(
         [sender |-> PyDict(
             [wa_id |-> PyStr(sender_wa_id),
              profile_name |-> Get(profile, "name", PyNone),
              formatted_name |-> Get(profile, "formatted_name", PyNone),
              is_verified |-> Get(profile, "verified", PyFalse)]),
          conversation |-> PyDict(
             [has_context |-> PyBool(Truthy(context_info)),
              is_reply |-> PyBool(Truthy(Get(context_info, "id", PyNone))),
              reply_to |-> IF Truthy(context_info) THEN Get(context_info, "from", PyNone)
                           ELSE PyNone,
              thread_context |-> PyBool(Truthy(Get(context_info, "quoted", PyNone)))]),
          text_analysis |-> PyDict(
             [length |-> PyNum(Len(message_text)),
              word_count |-> PyNum(Len(Split(message_text))),
              has_urls |-> PyBool(Contains(message_text, "http") \/ Contains(message_text, "www.")),
              has_phone |-> PyBool(DigitCount(message_text) >= 8),
              has_email |-> PyBool(Contains(message_text, "@") /\ Contains(message_text, ".")),
              has_price |-> PyBool(ContainsAny(message_text, <<"€", "$", "£", "EUR", "USD">>)),
              language_hints |-> PyStrList(_detect_language_hints(message_text))]),
          timing |-> PyDict(
             [processed_at |-> PyNum(now.iso),
              hour_of_day |-> PyNum(now.hour),
              day_of_week |-> PyNum(now.weekday),
              is_business_hours |-> PyBool(9 <= now.hour /\ now.hour <= 18)]),
          intent_signals |-> PyDict(
             [is_selling |-> PyBool(ContainsAny(lower,
                  <<"vends", "vente", "à vendre", "prix", "sell", "for sale">>)),
              is_seeking |-> PyBool(ContainsAny(lower,
                  <<"cherche", "recherche", "want", "looking for", "iso">>)),
              is_question |-> PyBool(
                  \/ Contains(message_text, "?")
                  \/ \E w \in {"comment", "pourquoi", "quand", "qui", "how", "why", "when"} :
                        StartsWith(lower, w)),
              is_greeting |-> PyBool(ContainsAny(lower,
                  <<"bonjour", "salut", "hello", "hi", "bonsoir">>)),
              has_urgency |-> PyBool(ContainsAny(lower,
                  <<"urgent", "rapidement", "vite", "asap", "quickly">>))])])

(* The dict extract_whatsapp_messages builds for one text message of a      *)
(* webhook value: message is the message object, contacts the value's       *)
(* contacts by wa_id, value_metadata the value's metadata, entry the entry. *)
ExtractedMessage(message, contacts, value_metadata, entry, now) ==
    LET sender_wa_id == Str(Get(message, "from", PyStr("")))
        contact_info == Get(contacts, sender_wa_id, PyDict(EmptyDict))
        context_info == PyOr(Get(message, "context", PyDict(EmptyDict)), PyDict(EmptyDict))
        text == Get(message, "text", PyDict(EmptyDict))
        body == Str(Get(text, "body", PyStr("")))
        profile == Get(contact_info, "profile", PyDict(EmptyDict))
    IN  PyDict(
         [id |-> Get(message, "id", PyNone),
          from |-> PyStr(sender_wa_id),
          timestamp |-> Get(message, "timestamp", PyNone),
          text |-> Get(text, "body", PyNone),
          phone_number_id |-> Get(value_metadata, "phone_number_id", PyNone),
          received_at |-> PyNum(now.iso),
          sender_profile_name |-> Get(profile, "name", PyNone),
          sender_formatted_name |-> Get(profile, "formatted_name", PyNone),
          sender_wa_id |-> PyStr(sender_wa_id),
          business_phone_number_id |-> Get(value_metadata, "phone_number_id", PyNone),
          display_phone_number |-> Get(value_metadata, "display_phone_number", PyNone),
          context_from |-> Get(context_info, "from", PyNone),
          context_id |-> Get(context_info, "id", PyNone),
          context_quoted |-> Get(context_info, "quoted", PyNone),
          is_group_message |->
              PyBool(_detect_group_message(sender_wa_id, contact_info, context_info)),
          group_context_indicators |-> PyStrList(_extract_group_indicators(body)),
          message_type |-> Get(message, "type", PyNone),
          webhook_entry_id |-> Get(entry, "id", PyNone),
          webhook_timestamp |-> Get(entry, "time", PyNone),
          semantic_metadata |->
              _create_semantic_metadata(sender_wa_id, contact_info, body, context_info, now)])

-----------------------------------------------------------------------------
(* Record merger: src/app.py.  Scores, boosts and signals in hundredths.    *)

\* field_mapping, as the pairs (source key, target key) in the order written
field_mapping ==
    << <<"collection", "model_collection">>,
       <<"condition_details", "condition_description">>,
       <<"dial_color", "dial_color">>,
       <<"material", "case_material">>,
       <<"has_box", "box_mentioned">>,
       <<"has_papers", "papers_mentioned">>,
       <<"has_warranty", "warranty_mentioned">>,
       <<"shipping_available", "shipping_mentioned">>,
       <<"seller_motivation", "urgency_context">>,
       <<"llm_reasoning", "extraction_reasoning">>,
       <<"brand", "brand">>, <<"model", "model">>, <<"reference", "reference">>,
       <<"price", "price">>, <<"currency", "currency">>, <<"condition", "condition">>,
       <<"year", "year">>, <<"size", "size">>, <<"movement_type", "movement_type">>,
       <<"message_type", "message_type">>, <<"confidence_score", "confidence_score">> >>

MappedKeys == {field_mapping[k][1] : k \in 1..Len(field_mapping)}

\* the source key whose target is target, among the keys of normalized
SourceOf(target, normalized) ==
    CHOOSE k \in 1..Len(field_mapping) :
        field_mapping[k][2] = target /\ field_mapping[k][1] \in DOMAIN normalized

_normalize_watch_info(watch_info) ==
    IF watch_info.t = "none" THEN PyDict(EmptyDict)
    ELSE LET normalized == IF watch_info.t = "obj" THEN watch_info.d ELSE EmptyDict
             targets == {field_mapping[k][2] : k \in
                            {j \in 1..Len(field_mapping) :
                                field_mapping[j][1] \in DOMAIN normalized}}
             unmapped == (DOMAIN normalized \ MappedKeys) \ targets
         IN  PyDict([key \in targets \cup unmapped |->
                        IF key \in targets
                        THEN normalized[field_mapping[SourceOf(key, normalized)][1]]
                        ELSE normalized[key]])

\* group_name of the merged entry
GroupName(whatsapp_meta) ==
    IF ~Truthy(Get(whatsapp_meta, "is_group_message", PyNone)) THEN PyNone
    ELSE IF Truthy(Get(whatsapp_meta, "sender_profile_name", PyNone))
    THEN Get(whatsapp_meta, "sender_profile_name", PyNone)
    ELSE IF Truthy(Get(whatsapp_meta, "group_context_indicators", PyNone))
    THEN PyStr("Groupe détecté ("
               \o Join(", ", Take(Strs(Get(whatsapp_meta, "group_context_indicators",
                                           PyList(EmptyList))), 2))
               \o ")")
    ELSE Get(whatsapp_meta, "sender_profile_name", PyNone)

Signals(semantic_meta) == Get(semantic_meta, "intent_signals", PyDict(EmptyDict))

\* message_type of the merged entry
MessageTypeOf(normalized_watch, semantic_meta) ==
    IF Truthy(Get(normalized_watch, "message_type", PyNone))
    THEN Get(normalized_watch, "message_type", PyNone)
    ELSE IF Truthy(Get(Signals(semantic_meta), "is_selling", PyNone)) THEN PyStr("sale")
    ELSE IF Truthy(Get(Signals(semantic_meta), "is_seeking", PyNone)) THEN PyStr("wanted")
    ELSE IF Truthy(Get(Signals(semantic_meta), "is_question", PyNone)) THEN PyStr("question")
    ELSE PyStr("general")

\* sum(1 for signal in intent_signals.values() if signal)
SignalCount(intent_signals) ==
    Cardinality({k \in DOMAIN intent_signals.d : Truthy(intent_signals.d[k])})

\* intent_score of the merged entry
IntentScoreOf(normalized_watch, semantic_meta) ==
    IF Truthy(Get(normalized_watch, "confidence_score", PyNone))
    THEN Get(normalized_watch, "confidence_score", PyNone)
    ELSE PyNum(Min(SignalCount(Signals(semantic_meta)) * 20, 100))

_get_price_range(price) ==
    IF price < 500 THEN "entry_level"
    ELSE IF price < 2000 THEN "mid_range"
    ELSE IF price < 10000 THEN "luxury"
    ELSE "high_end"

\* the keywords drawn from the extractor record
WatchKeywords(w) ==
    LET has(k) == Truthy(Get(w, k, PyNone))
        tag(prefix, k) == IF has(k) THEN {prefix \o Str(Get(w, k, PyNone))} ELSE {}
    IN  IF ~Truthy(w) THEN {}
        ELSE tag("brand:", "brand") \cup tag("model:", "model")
             \cup (IF has("price")
                   THEN {"price_range:" \o _get_price_range(Get(w, "price", PyNone).n)}
                   ELSE {})
             \cup tag("condition:", "condition") \cup tag("collection:", "collection")
             \cup (IF has("material") THEN tag("material:", "material")
                   ELSE tag("material:", "case_material"))
             \cup tag("dial:", "dial_color") \cup tag("size:", "size")
             \cup (IF has("box_mentioned") \/ has("has_box") THEN {"accessory:box"} ELSE {})
             \cup (IF has("papers_mentioned") \/ has("has_papers")
                   THEN {"accessory:papers"} ELSE {})
             \cup (IF has("warranty_mentioned") \/ has("has_warranty")
                   THEN {"accessory:warranty"} ELSE {})

\* the keywords drawn from the envelope
ContextKeywords(whatsapp_meta) ==
    LET semantic_meta == Get(whatsapp_meta, "semantic_metadata", PyDict(EmptyDict))
        intent_signals == Signals(semantic_meta)
        language_hints == Get(Get(semantic_meta, "text_analysis", PyDict(EmptyDict)),
                              "language_hints", PyList(EmptyList))
    IN  IF ~Truthy(whatsapp_meta) THEN {}
        ELSE (IF Truthy(Get(whatsapp_meta, "is_group_message", PyNone))
              THEN {"source:group"} ELSE {"source:private"})
             \cup {"intent:" \o intent : intent \in
                      {k \in DOMAIN intent_signals.d : Truthy(intent_signals.d[k])}}
             \cup {"language:" \o Str(language_hints.l[k]) : k \in 1..Len(language_hints.l)}

\* the keywords drawn from the text
ContentKeywords(content_lower) ==
    {"brand_mentioned:" \o brand : brand \in
        {b \in {"rolex", "omega", "seiko", "casio", "tudor", "breitling", "tag heuer",
                "cartier"} : Contains(content_lower, b)}}
    \cup (IF ContainsAny(content_lower, <<"urgent", "vite", "rapidement">>)
          THEN {"urgency:high"} ELSE {})
    \cup (IF ContainsAny(content_lower, <<"négociable", "negotiable", "prix à débattre">>)
          THEN {"price:negotiable"} ELSE {})

_extract_enhanced_keywords(content, normalized_watch, whatsapp_meta) ==
    PyListOfSet(WatchKeywords(normalized_watch)
                \cup ContextKeywords(whatsapp_meta)
                \cup ContentKeywords(Lower(content)))

\* max(-1.0, min(1.0, (positive - negative) / total)) in hundredths, the
\* quotient cut to the hundredth
SentimentOf(positive_count, negative_count, neutral_count) ==
    IF positive_count + negative_count + neutral_count = 0 THEN 0
    ELSE IF positive_count >= negative_count
    THEN (100 * (positive_count - negative_count))
             \div (positive_count + negative_count + neutral_count)
    ELSE -((100 * (negative_count - positive_count))
             \div (positive_count + negative_count + neutral_count))

positive_words ==
    <<"excellent", "parfait", "superbe", "magnifique", "neuf", "impeccable", "great", "perfect">>

negative_words ==
    <<"problème", "défaut", "cassé", "rayé", "usé", "abîmé", "broken", "damaged">>

neutral_words == <<"correct", "standard", "normal", "moyen", "acceptable">>

_calculate_sentiment_score(content) ==
    SentimentOf(CountIn(Lower(content), positive_words),
                CountIn(Lower(content), negative_words),
                CountIn(Lower(content), neutral_words))

_calculate_urgency_level(content) ==
    Min(5,
        (IF ContainsAny(Lower(content),
                        <<"urgent", "rapidement", "vite", "asap", "immédiatement">>)
         THEN 3 ELSE 0)
        + (IF CountChar(content, "!") >= 2 THEN 2
           ELSE IF Contains(content, "!") THEN 1 ELSE 0)
        + (IF Len(Split(content)) < 10 THEN 1 ELSE 0))

\* watch_info.__dict__ exists on a dataclass instance, not on a dict
HasDunderDict(watch_info) == watch_info.t = "obj"

\* _create_detailed_extraction raises AttributeError exactly when this holds
DetailedExtractionRaises(watch_info) == Truthy(watch_info) /\ ~HasDunderDict(watch_info)

_create_detailed_extraction(watch_info, whatsapp_meta, now) ==
    PyDict(
        (IF Truthy(watch_info) THEN [watch_extraction |-> PyDict(watch_info.d)] ELSE <<>>)
        @@ (IF Truthy(whatsapp_meta)
            THEN [whatsapp_context |-> PyDict(
                   [sender_profile |-> PyDict(
                       [name |-> Get(whatsapp_meta, "sender_profile_name", PyNone),
                        formatted_name |-> Get(whatsapp_meta, "sender_formatted_name", PyNone),
                        wa_id |-> Get(whatsapp_meta, "sender_wa_id", PyNone)]),
                    group_context |-> PyDict(
                       [is_group |-> Get(whatsapp_meta, "is_group_message", PyFalse),
                        indicators |-> Get(whatsapp_meta, "group_context_indicators",
                                           PyList(EmptyList))]),
                    conversation_context |-> PyDict(
                       [has_reply |-> PyBool(Truthy(Get(whatsapp_meta, "context_id", PyNone))),
                        reply_to |-> Get(whatsapp_meta, "context_from", PyNone),
                        is_quoted |->
                            PyBool(Truthy(Get(whatsapp_meta, "context_quoted", PyNone)))])])]
            ELSE <<>>)
        @@ [extraction_timestamp |-> PyNum(now.iso)])

\* watch_info.<name>: an attribute read, which a dict does not answer
HasAttributes(watch_info) == watch_info.t = "obj"

\* _create_enhanced_search_metadata raises AttributeError exactly when this holds
SearchMetadataRaises(watch_info) == Truthy(watch_info) /\ ~HasAttributes(watch_info)

_get_primary_intent(semantic_meta) ==
    IF ~Truthy(semantic_meta) THEN "unknown"
    ELSE IF Truthy(Get(Signals(semantic_meta), "is_selling", PyNone)) THEN "selling"
    ELSE IF Truthy(Get(Signals(semantic_meta), "is_seeking", PyNone)) THEN "seeking"
    ELSE IF Truthy(Get(Signals(semantic_meta), "is_question", PyNone)) THEN "question"
    ELSE IF Truthy(Get(Signals(semantic_meta), "is_greeting", PyNone)) THEN "greeting"
    ELSE "general"

_get_intent_confidence_scores(semantic_meta) ==
    IF ~Truthy(semantic_meta) THEN PyDict(EmptyDict)
    ELSE PyDict([intent \in DOMAIN Signals(semantic_meta).d |->
                    IF Truthy(Signals(semantic_meta).d[intent]) THEN PyNum(80)
                    ELSE PyNum(10)])

\* the keys of a dict of flags that are set, in the order the dict was
\* written (order)
SetKeys(flags, order) ==
    SelectSeq(order, LAMBDA k : k \in DOMAIN flags.d /\ Truthy(flags.d[k]))

\* the keys of intent_signals in the order _create_semantic_metadata writes them
SignalOrder == <<"is_selling", "is_seeking", "is_question", "is_greeting", "has_urgency">>

_get_detected_intents(semantic_meta) ==
    IF ~Truthy(semantic_meta) THEN <<>>
    ELSE SetKeys(Signals(semantic_meta), SignalOrder)

Abs(x) == IF x < 0 THEN -x ELSE x

\* max(0.0, min(1.0, 1.0 - abs(length / word_count - 5.5) / 10)) in
\* hundredths, the quotient cut to the hundredth
ReadabilityOf(length, word_count) ==
    IF word_count = 0 THEN 0
    ELSE Max(0, Min(100, 100 - (Abs(10 * length - 55 * word_count) \div word_count)))

_calculate_readability(whatsapp_meta) ==
    IF ~Truthy(whatsapp_meta) THEN 50
    ELSE LET text_analysis ==
                 Get(Get(whatsapp_meta, "semantic_metadata", PyDict(EmptyDict)),
                     "text_analysis", PyDict(EmptyDict))
         IN  ReadabilityOf(Get(text_analysis, "length", PyNum(0)).n,
                           Get(text_analysis, "word_count", PyNum(0)).n)

_calculate_information_density(semantic_meta) ==
    IF ~Truthy(semantic_meta) THEN 0
    ELSE LET text_analysis == Get(semantic_meta, "text_analysis", PyDict(EmptyDict))
             on(k) == Truthy(Get(text_analysis, k, PyNone))
         IN  Min(100, (IF on("has_price") THEN 30 ELSE 0)
                      + (IF on("has_phone") THEN 20 ELSE 0)
                      + (IF on("has_email") THEN 20 ELSE 0)
                      + (IF on("has_urls") THEN 20 ELSE 0))

_get_commercial_indicators(semantic_meta) ==
    IF ~Truthy(semantic_meta) THEN <<>>
    ELSE LET intent_signals == Signals(semantic_meta)
             text_analysis == Get(semantic_meta, "text_analysis", PyDict(EmptyDict))
         IN  (IF Truthy(Get(intent_signals, "is_selling", PyNone))
              THEN <<"selling_intent">> ELSE <<>>)
             \o (IF Truthy(Get(intent_signals, "is_seeking", PyNone))
                 THEN <<"buying_intent">> ELSE <<>>)
             \o (IF Truthy(Get(text_analysis, "has_price", PyNone))
                 THEN <<"price_mentioned">> ELSE <<>>)
             \o (IF Truthy(Get(intent_signals, "has_urgency", PyNone))
                 THEN <<"urgency">> ELSE <<>>)

_assess_source_reliability(whatsapp_meta) ==
    IF ~Truthy(whatsapp_meta) THEN 50
    ELSE Max(0, Min(100,
            50 + (IF Truthy(Get(whatsapp_meta, "sender_profile_name", PyNone)) THEN 20 ELSE 0)
               + (IF Truthy(Get(whatsapp_meta, "sender_formatted_name", PyNone))
                  THEN 10 ELSE 0)
               - (IF Truthy(Get(whatsapp_meta, "is_group_message", PyNone)) THEN 10 ELSE 0)))

_calculate_temporal_relevance == 100

_extract_social_context(whatsapp_meta) ==
    PyDict(
      [is_group_conversation |->
          IF Truthy(whatsapp_meta) THEN Get(whatsapp_meta, "is_group_message", PyFalse)
          ELSE PyFalse,
       has_social_indicators |->
          PyBool(Truthy(whatsapp_meta)
                 /\ Truthy(Get(whatsapp_meta, "group_context_indicators", PyNone))),
       conversation_thread |->
          PyBool(Truthy(whatsapp_meta) /\ Truthy(Get(whatsapp_meta, "context_id", PyNone)))])

_calculate_boost_factors(watch_info, semantic_meta) ==
    LET confident == Truthy(watch_info) /\ Attr(watch_info, "confidence_score").n > 70
        complete == /\ confident
                    /\ Truthy(Attr(watch_info, "brand"))
                    /\ Truthy(Attr(watch_info, "model"))
                    /\ Truthy(Attr(watch_info, "price"))
        clear == /\ Truthy(semantic_meta)
                 /\ \E k \in DOMAIN Signals(semantic_meta).d :
                       Truthy(Signals(semantic_meta).d[k])
    IN  PyDict([relevance |-> PyNum(IF confident THEN 150 ELSE 100),
                completeness |-> PyNum(IF complete THEN 130 ELSE 100),
                freshness |-> PyNum(100),
                authority |-> PyNum(IF clear THEN 120 ELSE 100)])

_extract_filter_categories(watch_info, whatsapp_meta) ==
    (IF Truthy(watch_info) /\ Truthy(Attr(watch_info, "brand"))
     THEN <<"brand_" \o Lower(Str(Attr(watch_info, "brand")))>> ELSE <<>>)
    \o (IF Truthy(watch_info) /\ Truthy(Attr(watch_info, "message_type"))
        THEN <<"type_" \o Str(Attr(watch_info, "message_type"))>> ELSE <<>>)
    \o (IF ~Truthy(whatsapp_meta) THEN <<>>
        ELSE IF Truthy(Get(whatsapp_meta, "is_group_message", PyNone))
        THEN <<"source_group">>
        ELSE <<"source_private">>)

_calculate_ranking_signals(watch_info, semantic_meta, whatsapp_meta) ==
    LET has(k) == Truthy(watch_info) /\ Truthy(Attr(watch_info, k))
        info_fields == Cardinality({k \in {"brand", "model", "price", "condition", "year"} :
                                      has(k)})
    IN  PyDict([content_quality |->
                    IF has("confidence_score") THEN Attr(watch_info, "confidence_score")
                    ELSE PyNum(50),
                user_engagement |-> PyNum(50),
                information_completeness |-> PyNum((100 * info_fields) \div 5),
                source_trust |->
                    PyNum(IF Truthy(whatsapp_meta)
                          THEN _assess_source_reliability(whatsapp_meta) ELSE 50)])

_create_enhanced_search_metadata(watch_info, whatsapp_meta, semantic_meta, now) ==
    PyDict(
      [processed_at |-> PyNum(now.iso),
       extraction_confidence |->
          IF Truthy(watch_info) THEN Attr(watch_info, "confidence_score") ELSE PyNum(0),
       has_watch_info |->
          PyBool(Truthy(watch_info) /\ Attr(watch_info, "confidence_score").n > 20),
       semantic_enrichment |-> PyDict(
          [intent_classification |-> PyDict(
              [primary_intent |-> PyStr(_get_primary_intent(semantic_meta)),
               confidence_scores |-> _get_intent_confidence_scores(semantic_meta),
               detected_intents |-> PyStrList(_get_detected_intents(semantic_meta))]),
           content_analysis |-> PyDict(
              [readability_score |-> PyNum(_calculate_readability(whatsapp_meta)),
               information_density |-> PyNum(_calculate_information_density(semantic_meta)),
               commercial_indicators |->
                  PyStrList(_get_commercial_indicators(semantic_meta))]),
           contextual_signals |-> PyDict(
              [source_reliability |-> PyNum(_assess_source_reliability(whatsapp_meta)),
               temporal_relevance |-> PyNum(_calculate_temporal_relevance),
               social_context |-> _extract_social_context(whatsapp_meta)])]),
       search_optimization |-> PyDict(
          [boost_factors |-> _calculate_boost_factors(watch_info, semantic_meta),
           filter_categories |->
              PyStrList(_extract_filter_categories(watch_info, whatsapp_meta)),
           ranking_signals |->
              _calculate_ranking_signals(watch_info, semantic_meta, whatsapp_meta)])])

\* semantic_meta.get('intent_signals', {}).get(...) raises: a nested structure
\* is present but is no dict
IntentSignalsMissing(semantic_meta) ==
    \/ ~HasGet(semantic_meta)
    \/ ~HasGet(Signals(semantic_meta))

\* the nested reads of _extract_enhanced_keywords raise
NestedMissing(semantic_meta) ==
    \/ IntentSignalsMissing(semantic_meta)
    \/ ~HasGet(Get(semantic_meta, "text_analysis", PyDict(EmptyDict)))

\* The exception that leaves create_message_embedding_from_watch_info, "" when
\* it returns: the statements that can raise, in the order they are evaluated.
MergeException(normalized_watch, whatsapp_meta) ==
    IF ~HasGet(whatsapp_meta) THEN "AttributeError"
    ELSE IF /\ \/ ~Truthy(Get(normalized_watch, "message_type", PyNone))
               \/ ~Truthy(Get(normalized_watch, "confidence_score", PyNone))
            /\ IntentSignalsMissing(Get(whatsapp_meta, "semantic_metadata", PyDict(EmptyDict)))
    THEN "AttributeError"
    ELSE IF /\ Truthy(Get(normalized_watch, "price", PyNone))
            /\ CompareRaises(Get(normalized_watch, "price", PyNone))
    THEN "TypeError"
    ELSE IF /\ Truthy(whatsapp_meta)
            /\ NestedMissing(Get(whatsapp_meta, "semantic_metadata", PyDict(EmptyDict)))
    THEN "AttributeError"
    ELSE IF DetailedExtractionRaises(normalized_watch) THEN "AttributeError"
    ELSE IF SearchMetadataRaises(normalized_watch) THEN "AttributeError"
    ELSE ""

\* sentiment_score=_calculate_sentiment_score(...) or normalized_watch.get('sentiment_score')
EntrySentimentScore(content, normalized_watch) ==
    IF _calculate_sentiment_score(content) # 0
    THEN PyNum(_calculate_sentiment_score(content))
    ELSE Get(normalized_watch, "sentiment_score", PyNone)

\* urgency_level=_calculate_urgency_level(...) or normalized_watch.get('urgency_level', 0)
EntryUrgencyLevel(content, normalized_watch) ==
    IF _calculate_urgency_level(content) # 0
    THEN PyNum(_calculate_urgency_level(content))
    ELSE Get(normalized_watch, "urgency_level", PyNum(0))

\* MessageEmbedding(...) as the return statement builds it
MergedEntry(phone_number, content, embedding, normalized_watch, whatsapp_meta, semantic_meta, now) ==
    PyObj("MessageEmbedding",
      [id |-> PyNone,
       phone_number |-> PyStr(phone_number),
       message_content |-> PyStr(content),
       message_timestamp |-> PyNum(now.iso),
       sender |-> PyOr(PyOr(Get(whatsapp_meta, "sender_formatted_name", PyNone),
                            Get(whatsapp_meta, "sender_profile_name", PyNone)),
                       PyStr(phone_number)),
       is_outgoing |-> PyFalse,
       embedding |-> embedding,
       media_type |-> PyNone,
       content_hash |-> PyNone,
       group_name |-> GroupName(whatsapp_meta),
       message_type |-> MessageTypeOf(normalized_watch, semantic_meta),
       intent_score |-> IntentScoreOf(normalized_watch, semantic_meta),
       watch_brand |-> Get(normalized_watch, "brand", PyNone),
       watch_model |-> Get(normalized_watch, "model", PyNone),
       watch_reference |-> Get(normalized_watch, "reference", PyNone),
       price_mentioned |-> Get(normalized_watch, "price", PyNone),
       currency |-> Get(normalized_watch, "currency", PyStr("EUR")),
       price_type |-> Get(normalized_watch, "price_type", PyNone),
       condition_mentioned |-> Get(normalized_watch, "condition", PyNone),
       year_mentioned |-> Get(normalized_watch, "year", PyNone),
       size_mentioned |-> Get(normalized_watch, "size", PyNone),
       movement_type |-> Get(normalized_watch, "movement_type", PyNone),
       seller_type |-> Get(normalized_watch, "seller_type", PyNone),
       location_mentioned |-> Get(normalized_watch, "location", PyNone),
       shipping_info |-> PyOr(Get(normalized_watch, "shipping_info", PyNone),
                              Get(normalized_watch, "shipping_details", PyNone)),
       authenticity_mentioned |-> Get(normalized_watch, "authenticity_mentioned", PyFalse),
       extracted_keywords |->
           _extract_enhanced_keywords(content, normalized_watch, whatsapp_meta),
       sentiment_score |-> EntrySentimentScore(content, normalized_watch),
       urgency_level |-> EntryUrgencyLevel(content, normalized_watch),
       detailed_extraction |->
           _create_detailed_extraction(normalized_watch, whatsapp_meta, now),
       search_metadata |->
           _create_enhanced_search_metadata(normalized_watch, whatsapp_meta,
                                            semantic_meta, now)])

\* the merge once watch_info is normalized and "whatsapp_metadata or {}" taken
MergeNormalized(phone_number, content, embedding, normalized_watch, whatsapp_meta, now) ==
    IF MergeException(normalized_watch, whatsapp_meta) # ""
    THEN [exc |-> MergeException(normalized_watch, whatsapp_meta), entry |-> PyNone]
    ELSE [exc |-> "",
          entry |-> MergedEntry(phone_number, content, embedding, normalized_watch,
                                whatsapp_meta,
                                Get(whatsapp_meta, "semantic_metadata", PyDict(EmptyDict)),
                                now)]

\* create_message_embedding_from_watch_info: [exc, entry]; now is the wall
\* clock read by datetime.now()
create_message_embedding_from_watch_info(phone_number, content, embedding, watch_info, whatsapp_metadata, now) ==
    CHOOSE merged \in
        {MergeNormalized(phone_number, content, embedding, normalized_watch,
                         whatsapp_meta, now) :
            normalized_watch \in {_normalize_watch_info(watch_info)},
            whatsapp_meta \in {PyOr(whatsapp_metadata, PyDict(EmptyDict))}} : TRUE

-----------------------------------------------------------------------------
(* Embedding calls and store access: src/src/embedding_processor.py.  The   *)
(* embeddings service answers a request with "ok" (a vector of the          *)
(* configured dimension), "wrong_dimension" (a vector of another length)    *)
(* or "raises"; the table insert answers "ok" (the stored row comes back),  *)
(* "no_data" (an answer without rows) or "raises".                          *)

CleanLimit == 6000

\* re.sub(r'\s+', ' ', s) from position i on
RECURSIVE CollapseFrom(_, _, _)
CollapseFrom(s, i, after_space) ==
    IF i > Len(s) THEN ""
    ELSE IF IsSpace(Char(s, i))
    THEN (IF after_space THEN "" ELSE " ") \o CollapseFrom(s, i + 1, TRUE)
    ELSE Char(s, i) \o CollapseFrom(s, i + 1, FALSE)

_clean_message_content(content) ==
    IF IsBlank(content) THEN ""
    ELSE CHOOSE cleaned \in
            {IF Len(c) > CleanLimit THEN SubSeq(c, 1, CleanLimit) \o "..." ELSE c :
                c \in {CollapseFrom(Strip(content), 1, FALSE)}} : TRUE

\* response.data[0].embedding for an answer that is not an exception
ServiceVector(answer) ==
    IF answer = "ok" THEN PyVec(embedding_dimension)
    ELSE PyVec(embedding_dimension \div 3)

\* generate_embedding: [vec, sent], sent the inputs sent to the service
generate_embedding(text, answer) ==
    IF IsBlank(text) THEN [vec |-> PyNone, sent |-> <<>>]
    ELSE IF _clean_message_content(text) = "" THEN [vec |-> PyNone, sent |-> <<>>]
    ELSE IF answer = "raises"
    THEN [vec |-> PyNone, sent |-> <<_clean_message_content(text)>>]
    ELSE [vec |-> ServiceVector(answer), sent |-> <<_clean_message_content(text)>>]

\* generate_enhanced_embedding: service is [enhanced, plain], the answers to
\* the request for the tagged text and to the one of the fallback
generate_enhanced_embedding(text, metadata, service) ==
    IF IsBlank(text) THEN [vec |-> PyNone, sent |-> <<>>]
    ELSE IF service.enhanced = "raises"
    THEN [vec |-> generate_embedding(text, service.plain).vec,
          sent |-> <<_create_enhanced_text_for_embedding(text, metadata)>>
                   \o generate_embedding(text, service.plain).sent]
    ELSE IF ServiceVector(service.enhanced).n # embedding_dimension
    THEN [vec |-> PyNone,
          sent |-> <<_create_enhanced_text_for_embedding(text, metadata)>>]
    ELSE [vec |-> ServiceVector(service.enhanced),
          sent |-> <<_create_enhanced_text_for_embedding(text, metadata)>>]

\* the keys of the dict store_message_embedding inserts
StoredColumns ==
    {"phone_number", "message_content", "message_timestamp", "sender", "embedding",
     "is_outgoing", "content_hash", "group_name", "message_type", "intent_score",
     "watch_brand", "watch_model", "watch_reference", "price_mentioned", "currency",
     "price_type", "condition_mentioned", "year_mentioned", "size_mentioned",
     "movement_type", "seller_type", "location_mentioned", "shipping_info",
     "authenticity_mentioned", "extracted_keywords", "sentiment_score",
     "urgency_level", "detailed_extraction", "search_metadata"}

StoreData(message_embedding) ==
    [column \in StoredColumns |->
        IF column \in {"detailed_extraction", "search_metadata"}
        THEN PyOr(Attr(message_embedding, column), PyDict(EmptyDict))
        ELSE Attr(message_embedding, column)]

\* store_message_embedding: [result, rows]: the value returned and the rows
\* the table gained; next_id is the id the table gives the row
store_message_embedding(message_embedding, insert, next_id) ==
    IF insert = "ok"
    THEN [result |-> PyDict(("id" :> PyNum(next_id)) @@ StoreData(message_embedding)),
          rows |-> <<PyDict(("id" :> PyNum(next_id)) @@ StoreData(message_embedding))>>]
    ELSE [result |-> PyNone, rows |-> <<>>]

-----------------------------------------------------------------------------
(* Inputs of the extractor operations *)

MaxExtractOps == 2

ExtractTexts == {"Vends Rolex 8500€", "Cherche Omega"}

\* texts for the pattern extractor: empty, nothing to find, a price alone, a brand
\* alone, a search naming a price, and two brands with every scored field
PatternTexts ==
    {"", "bonjour", "8500€", "Cherche Omega", "Cherche Omega, prix max 3000€",
     "Rolex ou Omega Speedmaster neuf 2020 40mm 8500€"}

\* WatchInfoExtractor.extract_watch_info on the sample texts, computed once
PatternResults ==
    [order \in BrandOrders |->
        [text \in PatternTexts |-> Regex_extract_watch_info(order, PyStr(text))]]

SampleMetadata ==
    PyDict([sender_profile_name |-> PyStr("Marc"), is_group_message |-> PyTrue])

\* the same sender and group flag, with the intent signals of a sale
SignalledMetadata ==
    PyDict([sender_profile_name |-> PyStr("Marc"), is_group_message |-> PyTrue,
            semantic_metadata |->
                PyDict([intent_signals |-> PyDict([is_selling |-> PyTrue])])])

ExtractMetas == {PyNone, SampleMetadata}

\* the (text, metadata) pairs extract_watch_info is called with: every text
\* without and with metadata, the sale text with its intent signals, and the
\* empty text
ExtractInputs ==
    (ExtractTexts \X ExtractMetas)
        \cup {<<"Vends Rolex 8500€", SignalledMetadata>>, <<"", PyNone>>}

\* JSON values the completion service can answer with
JsonWithConfidence(c) ==
    PyDict([watch_details |-> PyDict([brand |-> PyStr("Rolex"), price |-> PyNum(8500)]),
            sale_info |-> PyDict([message_type |-> PyStr("sale")]),
            extraction_metadata |->
                PyDict([confidence_score |-> c, reasoning |-> PyStr("brand and price found")])])

\* an answer without a message type, with an urgency of its own
JsonWithUrgency(u) ==
    PyDict([watch_details |-> PyDict([brand |-> PyStr("Omega")]),
            sale_info |-> PyDict([urgency_level |-> u]),
            extraction_metadata |-> PyDict([confidence_score |-> PyNum(60)])])

\* an answer that names the collection, the case material and the box
JsonWithCollection ==
    PyDict([watch_details |->
                PyDict([brand |-> PyStr("Omega"), collection |-> PyStr("Speedmaster"),
                        material |-> PyStr("acier")]),
            accessories |-> PyDict([has_box |-> PyTrue]),
            extraction_metadata |-> PyDict([confidence_score |-> PyNum(90)])])

JsonResponses ==
    { PyList(EmptyList),                                   \* valid JSON, not an object
      PyDict(EmptyDict),                                   \* {}
      PyDict([extraction_metadata |-> PyNone]) }           \* a group that is null
    \cup { JsonWithConfidence(c) :
             c \in {PyNum(0), PyNum(85), PyNum(150), PyNum(-10), PyStr("high"), PyNone} }

Completions ==
    { [raises |-> TRUE, err |-> "APIConnectionError", parses |-> FALSE, json |-> PyNone],
      [raises |-> FALSE, err |-> "", parses |-> FALSE, json |-> PyNone] }
    \cup { [raises |-> FALSE, err |-> "", parses |-> TRUE, json |-> j] : j \in JsonResponses }

NoCompletion == [raises |-> FALSE, err |-> "", parses |-> FALSE, json |-> PyNone]

-----------------------------------------------------------------------------
(* The cache key computed for two inputs *)

KeyTexts == {"Vends Rolex", "Vends RolexMarc", "Vends RolexMarcTrue"}

\* envelopes: none, empty, a sender in a group, a sender whose name ends like
\* a flag, a group flag alone
KeyMetas ==
    {PyNone,
     PyDict(EmptyDict),
     PyDict([sender_profile_name |-> PyStr("Marc"), is_group_message |-> PyTrue]),
     PyDict([sender_profile_name |-> PyStr("MarcTrue"), is_group_message |-> PyFalse]),
     PyDict([is_group_message |-> PyTrue])}

KeyInputs == [text : KeyTexts, meta : KeyMetas]

\* _generate_cache_key applied to both inputs: the strings handed to md5
GenerateCacheKeys ==
    /\ ~keyed.done
    /\ keyed' = [keyed EXCEPT !.done = TRUE,
                              !.content_a = cache_content(keyed.a.text, keyed.a.meta),
                              !.content_b = cache_content(keyed.b.text, keyed.b.meta)]
    /\ UNCHANGED <<race, storing, realtime, delivery_vars, standalone_vars,
                   extractor_vars, pipeline_vars, build_vars, merge_vars>>

-----------------------------------------------------------------------------
(* Operations on the extractors *)

\* one call of LLMWatchExtractor.extract_watch_info
LLMExtract ==
    /\ Len(extract_log) < MaxExtractOps
    /\ \E input \in ExtractInputs, completion \in Completions :
          LET r == LLM_extract_watch_info(extraction_cache, input[1], input[2], completion)
          IN  /\ extraction_cache' = r.cache
              /\ completion_calls' = completion_calls + (IF r.called THEN 1 ELSE 0)
              /\ extract_log' = Append(extract_log,
                    [op |-> "llm", text |-> input[1], meta |-> input[2],
                     completion |-> IF r.called THEN completion ELSE NoCompletion,
                     ret |-> r.ret, raised |-> r.raised, called |-> r.called])
    /\ UNCHANGED <<late_vars, delivery_vars, standalone_vars, brand_order, pipeline_vars, build_vars, merge_vars>>

\* one call of WatchInfoExtractor.extract_watch_info
PatternExtract ==
    /\ Len(extract_log) < MaxExtractOps
    /\ \E text \in PatternTexts :
          LET r == PatternResults[brand_order][text]
          IN  extract_log' = Append(extract_log,
                    [op |-> "regex", text |-> text, meta |-> PyNone,
                     completion |-> NoCompletion,
                     ret |-> r.ret, raised |-> r.raised, called |-> FALSE])
    /\ UNCHANGED <<late_vars, delivery_vars, standalone_vars, extraction_cache, completion_calls, brand_order,
                   pipeline_vars, build_vars, merge_vars>>

\* LLMWatchExtractor.clear_cache
ClearCache ==
    /\ Len(extract_log) < MaxExtractOps
    /\ extraction_cache' = <<>>
    /\ extract_log' = Append(extract_log,
          [op |-> "clear", text |-> "", meta |-> PyNone, completion |-> NoCompletion,
           ret |-> PyNone, raised |-> FALSE, called |-> FALSE])
    /\ UNCHANGED <<late_vars, delivery_vars, standalone_vars, completion_calls, brand_order, pipeline_vars, build_vars, merge_vars>>

-----------------------------------------------------------------------------
(* Inputs of the embedding text builder *)

TagRoom == 70
BuildMargin == 1

BuildTexts ==
    {"", "Vends Rolex Submariner 8500€ urgent"}
    \cup {Rep("a", n) : n \in {max_length - TagRoom}
                               \cup ((max_length - BuildMargin)..(max_length + BuildMargin))}

IntentSignals(selling, seeking) ==
    PyDict([is_selling |-> PyBool(selling), is_seeking |-> PyBool(seeking),
            is_question |-> PyFalse, is_greeting |-> PyFalse, has_urgency |-> PyFalse])

\* the conversational blocks of a message that is a reply, in French, with
\* a price, received during business hours
RichBlocks ==
    [text_analysis |-> PyDict([has_price |-> PyTrue, has_phone |-> PyFalse,
                               has_urls |-> PyTrue,
                               language_hints |-> PyStrList(<<"french">>)]),
     timing |-> PyDict([is_business_hours |-> PyTrue]),
     conversation |-> PyDict([is_reply |-> PyTrue, has_context |-> PyTrue])]

BuildMetaOf(group, name, signals, rich) ==
    PyDict(
        (IF group = "absent" THEN <<>> ELSE [is_group_message |-> PyBool(group = "yes")])
        @@ (IF name = "absent" THEN <<>>
            ELSE [sender_profile_name |-> IF name = "none" THEN PyNone ELSE PyStr(name)])
        @@ (IF signals = PyNone /\ ~rich THEN <<>>
            ELSE [semantic_metadata |->
                    PyDict((IF signals = PyNone THEN <<>> ELSE [intent_signals |-> signals])
                           @@ (IF rich THEN RichBlocks ELSE <<>>))])
        @@ (IF rich THEN [group_context_indicators |-> PyStrList(<<"groupe", "@", "cc:">>)]
            ELSE <<>>))

BuildMetas ==
    {PyNone, PyDict(EmptyDict)}
    \cup { BuildMetaOf(group, name, signals, rich) :
             group \in {"absent", "no", "yes"},
             name \in {"absent", "none", "Marc"},
             signals \in {PyNone} \cup {IntentSignals(a, b) : a, b \in BOOLEAN},
             rich \in BOOLEAN }

-----------------------------------------------------------------------------
(* The embedding text builder called on its own *)

Build ==
    /\ ~build_out.done
    /\ build_out' = [done |-> TRUE,
                     text |-> _create_enhanced_text_for_embedding(build_in.text, build_in.meta)]
    /\ UNCHANGED <<late_vars, delivery_vars, standalone_vars, build_in, extractor_vars, pipeline_vars, merge_vars>>

-----------------------------------------------------------------------------
(* Module import, startup and the pipeline entry point: src/app.py *)

\* import of app: the extractor is chosen by the OpenAI key; importable says
\* whether the extractor's module (and the openai package it needs) imports
Import ==
    /\ watch_extractor = "unset"
    /\ \E key \in BOOLEAN, importable \in BOOLEAN :
          /\ openai_api_key' = key
          /\ watch_extractor' = IF ~importable THEN "none"
                                ELSE IF key THEN "llm" ELSE "regex"
          \* WatchInfoExtractor() builds the set of brands
          /\ brand_order' \in IF importable /\ ~key THEN BrandOrders ELSE {brand_order}
    /\ UNCHANGED <<late_vars, delivery_vars, standalone_vars, has_processor, started, table, stats, pipeline_log,
                   extraction_cache, completion_calls, extract_log,
                   build_vars, merge_vars>>

\* startup_event: the processor exists when the four settings are present
\* and WhatsAppRealtimeAPI can be imported and constructed; its modules
\* import the openai package too, so they cannot be when the LLM extractor
\* could not
Startup ==
    /\ watch_extractor # "unset"
    /\ ~started
    /\ \E settings \in BOOLEAN, constructed \in BOOLEAN :
          has_processor' = (/\ openai_api_key /\ settings /\ constructed
                            /\ watch_extractor = "llm")
    /\ started' = TRUE
    /\ UNCHANGED <<late_vars, delivery_vars, standalone_vars, watch_extractor, openai_api_key, table, stats, pipeline_log,
                   extractor_vars, build_vars, merge_vars>>

\* the dict returned by process_message_with_rag
Outcome(success, embedding_id, reason, error, mode, watch_info) ==
    [success |-> success, embedding_id |-> embedding_id, reason |-> reason,
     error |-> error, mode |-> mode,
     watch_info |-> IF Truthy(watch_info) THEN PyDict(watch_info.d) ELSE PyNone]

\* the outer except: {"success": False, "error": str(e)}
ErrorOutcome(e) ==
    [success |-> FALSE, embedding_id |-> PyNone, reason |-> "", error |-> e,
     mode |-> "", watch_info |-> PyNone]

\* the extraction step: [watch_info, cache, called]
ExtractionStep(extractor, order, cache, content, message, completion) ==
    IF extractor = "llm"
    THEN CHOOSE step \in
            {[watch_info |-> r.ret, cache |-> r.cache, called |-> r.called] :
                r \in {LLM_extract_watch_info(cache, content, message, completion)}} : TRUE
    ELSE IF extractor = "regex"
    THEN [watch_info |-> IF PatternResults[order][content].raised THEN PyNone
                         ELSE PatternResults[order][content].ret,
          cache |-> cache, called |-> FALSE]
    ELSE [watch_info |-> PyNone, cache |-> cache, called |-> FALSE]

\* a confidence in hundredths (True is 1.0)
Hundredths(v) == IF v.t = "bool" THEN 100 * v.n ELSE v.n

\* "watch_info and watch_info.confidence_score > k" raises TypeError
ConfidenceCheckRaises(watch_info) ==
    Truthy(watch_info) /\ CompareRaises(Attr(watch_info, "confidence_score"))

ConfidenceAbove(watch_info, k) ==
    Truthy(watch_info) /\ Hundredths(Attr(watch_info, "confidence_score")) > k

\* the counters as the statistics block leaves them, up to the statement
\* that raises when there is one
UpdatedStats(st, watch_info) ==
    IF ~ConfidenceAbove(watch_info, 20) THEN st
    ELSE [st EXCEPT
            !.watch_messages_detected = @ + 1,
            !.sales_detected =
                @ + (IF Attr(watch_info, "message_type") = PyStr("sale") THEN 1 ELSE 0),
            !.wanted_detected =
                @ + (IF Attr(watch_info, "message_type") = PyStr("wanted") THEN 1 ELSE 0),
            !.questions_detected =
                @ + (IF Attr(watch_info, "message_type") = PyStr("question") THEN 1 ELSE 0),
            !.total_value_detected =
                @ + (IF /\ Truthy(Attr(watch_info, "price"))
                        /\ ~CompareRaises(Attr(watch_info, "price"))
                     THEN Attr(watch_info, "price").n ELSE 0)]

\* stats["total_value_detected"] += watch_info.price raises TypeError
StatsRaises(watch_info) ==
    /\ ConfidenceAbove(watch_info, 20)
    /\ Truthy(Attr(watch_info, "price"))
    /\ CompareRaises(Attr(watch_info, "price"))

\* "if embedding:"
GotVectorAlways(embedding) == TRUE

GotVector(embedding) == Truthy(embedding)

\* the handler from the store call on: lines 907-928
AfterStore(stored, watch_info, tbl, st) ==
    [result |-> IF StatsRaises(watch_info) THEN ErrorOutcome("TypeError")
                ELSE Outcome(TRUE, stored.result, "", "", "", watch_info),
     table |-> tbl \o stored.rows,
     stats |-> UpdatedStats(st, watch_info),
     insert_issued |-> TRUE]

(* The handler from the embedding call up to the merge: [stage, exc, entry]. *)
(* stage is "basic" without a processor, "no_vector" when the embedding      *)
(* call gave none, "raised" when a statement raised exc, and "merged" when   *)
(* the entry was built.  embedded is the result of                           *)
(* generate_enhanced_embedding.                                              *)
MergeStep(processor, message, watch_info, embedded, now) ==
    IF ~processor
    THEN [stage |-> "basic", exc |-> "", entry |-> PyNone]
    ELSE IF ~GotVector(embedded.vec)
    THEN [stage |-> "no_vector", exc |-> "", entry |-> PyNone]
    ELSE IF ConfidenceCheckRaises(watch_info)
    THEN [stage |-> "raised", exc |-> "TypeError", entry |-> PyNone]
    ELSE CHOOSE attempt \in
            {[stage |-> IF merged.exc # "" THEN "raised" ELSE "merged",
              exc |-> merged.exc, entry |-> merged.entry] :
                merged \in {create_message_embedding_from_watch_info(
                                Str(Get(message, "from", PyStr(""))),
                                Str(Get(message, "text", PyStr(""))),
                                embedded.vec, watch_info, message, now)}} : TRUE

(* process_message_with_rag from the merge's result on: what it returns and *)
(* the table and counters it leaves.  insert is the answer of the table     *)
(* insert.                                                                  *)
StoreStep(attempt, watch_info, tbl, st, insert) ==
    IF attempt.stage = "merged"
    THEN CHOOSE out \in
            {AfterStore(stored, watch_info, tbl, st) :
                stored \in {store_message_embedding(attempt.entry, insert,
                                                    Len(tbl) + 1)}} : TRUE
    ELSE [result |->
            IF attempt.stage = "no_vector"
            THEN [success |-> FALSE, embedding_id |-> PyNone,
                  reason |-> "Embedding failed", error |-> "", mode |-> "",
                  watch_info |-> PyNone]
            ELSE IF attempt.stage = "raised" THEN ErrorOutcome(attempt.exc)
            \* the branch without a processor ("mode": "basic")
            ELSE IF ConfidenceCheckRaises(watch_info) THEN ErrorOutcome("TypeError")
            ELSE Outcome(TRUE, PyNone, "", "", "basic", watch_info),
          table |-> tbl, stats |-> st, insert_issued |-> FALSE]

-----------------------------------------------------------------------------
(* Inputs of the pipeline *)

MaxHandled == 2

WebhookNow == [iso |-> 0, hour |-> 10, weekday |-> 2]

SampleContacts ==
    PyDict("33612345678" :>
             PyDict([wa_id |-> PyStr("33612345678"),
                     profile |-> PyDict([name |-> PyStr("Marc")])]))

RawMessage(id, sender, body, context) ==
    PyDict([id |-> PyStr(id), from |-> PyStr(sender), timestamp |-> PyStr("1700000000"),
            type |-> PyStr("text"),
            text |-> PyDict([body |-> PyStr(body), preview_url |-> PyFalse])]
           @@ context)

\* text messages of a webhook: a sale offer from a known contact, a reply
\* from an unknown sender, and a message whose body is empty
RawMessages ==
    {RawMessage("wamid.1", "33612345678",
                "Rolex ou Omega Speedmaster neuf 2020 40mm 8500€", <<>>),
     RawMessage("wamid.2", "33698765432", "Cherche Omega",
                [context |-> PyDict([from |-> PyStr("33612345678"),
                                     id |-> PyStr("wamid.1")])]),
     RawMessage("wamid.3", "33612345678", "", <<>>)}

\* what extract_whatsapp_messages hands to the pipeline, computed once
PipelineMessages ==
    {ExtractedMessage(raw, SampleContacts,
                      PyDict([phone_number_id |-> PyStr("1055"),
                              display_phone_number |-> PyStr("15550001111")]),
                      PyDict([id |-> PyStr("entry.1"), time |-> PyNum(1700000000)]),
                      WebhookNow) : raw \in RawMessages}

\* answers of the completion service to a pipeline request
PipelineCompletions ==
    { [raises |-> TRUE, err |-> "APIConnectionError", parses |-> FALSE, json |-> PyNone],
      [raises |-> FALSE, err |-> "", parses |-> TRUE, json |-> JsonWithConfidence(PyNum(85))],
      [raises |-> FALSE, err |-> "", parses |-> TRUE, json |-> JsonWithConfidence(PyNone)] }

ServiceAnswers == {"ok", "wrong_dimension", "raises"}

InsertAnswers == {"ok", "no_data", "raises"}

\* the wall clock at the k-th call of the handler
HandlerClock(k) == [iso |-> k, hour |-> 10, weekday |-> 2]

-----------------------------------------------------------------------------
(* The record merger called on its own *)

MergeTexts ==
    {"Vends Rolex Submariner 8500€ urgent", "bonjour",
     "je propose ma montre neuf avec sa boite et tous ses papiers"}

MergeClock == [iso |-> 1, hour |-> 10, weekday |-> 2]

\* extractor records: none, the pattern record of a text with nothing to
\* find and of one with every field, and model records with and without an
\* extraction, the last with fields only the model extractor has
MergeRecords ==
    {PyNone,
     WatchInfo(WatchInfoDefaults),
     PatternResults[watch_brands]["Rolex ou Omega Speedmaster neuf 2020 40mm 8500€"].ret,
     ExtractionErrorRecord("APIConnectionError"),
     ConvertedRecord(JsonWithConfidence(PyNum(85))),
     ConvertedRecord(JsonWithConfidence(PyStr("high"))),
     ConvertedRecord(JsonWithUrgency(PyNum(9))),
     ConvertedRecord(JsonWithCollection)}

\* envelopes: absent, empty, without the nested structures, with nested
\* structures that are null, with the selling signal alone, and the dicts
\* extract_whatsapp_messages builds
MergeEnvelopes ==
    {PyNone,
     PyDict(EmptyDict),
     PyDict([sender_profile_name |-> PyStr("Marc")]),
     PyDict([semantic_metadata |-> PyNone]),
     PyDict([semantic_metadata |-> PyDict([intent_signals |-> PyNone])]),
     PyDict([semantic_metadata |->
                PyDict([intent_signals |-> PyDict([is_selling |-> PyTrue])])]),
     PyDict([is_group_message |-> PyTrue,
             group_context_indicators |-> PyStrList(<<"groupe", "@">>),
             semantic_metadata |-> PyDict(EmptyDict)])}
    \cup PipelineMessages

Merge ==
    /\ ~merge_out.done
    /\ \E merged \in {create_message_embedding_from_watch_info(
                          "33612345678", merge_in.content, PyVec(embedding_dimension),
                          merge_in.watch_info, merge_in.whatsapp_metadata, MergeClock)} :
          merge_out' = [done |-> TRUE, exc |-> merged.exc, entry |-> merged.entry]
    /\ UNCHANGED <<late_vars, delivery_vars, standalone_vars, merge_in, merge_again, extractor_vars, pipeline_vars,
                   build_vars>>

\* datetime.now() at a later call
MergeClockLater == [iso |-> 2, hour |-> 10, weekday |-> 2]

\* the same call once more, the clock having moved on
MergeAgain ==
    /\ merge_out.done
    /\ ~merge_again.done
    /\ \E merged \in {create_message_embedding_from_watch_info(
                          "33612345678", merge_in.content, PyVec(embedding_dimension),
                          merge_in.watch_info, merge_in.whatsapp_metadata,
                          MergeClockLater)} :
          merge_again' = [done |-> TRUE, exc |-> merged.exc, entry |-> merged.entry]
    /\ UNCHANGED <<late_vars, delivery_vars, standalone_vars, merge_in, merge_out, extractor_vars, pipeline_vars,
                   build_vars>>

-----------------------------------------------------------------------------
(* One call of process_message_with_rag.  The answers of services that the  *)
(* call does not consult are fixed to "ok" (NoCompletion for the            *)
(* completion service), so that they do not multiply the states.            *)
HandleMessage(message) ==
    /\ \E completion \in PipelineCompletions \cup {NoCompletion} :
        \E step \in {ExtractionStep(watch_extractor, brand_order, extraction_cache,
                                    Str(Get(message, "text", PyStr(""))), message,
                                    completion)} :
          /\ step.called = (completion # NoCompletion)
          /\ \E enhanced \in ServiceAnswers, plain \in ServiceAnswers :
              \E embedded \in {IF has_processor
                               THEN generate_enhanced_embedding(
                                        Str(Get(message, "text", PyStr(""))), message,
                                        [enhanced |-> enhanced, plain |-> plain])
                               ELSE [vec |-> PyNone, sent |-> <<>>]} :
                /\ Len(embedded.sent) >= 1 \/ enhanced = "ok"
                /\ Len(embedded.sent) >= 2 \/ plain = "ok"
                /\ \E attempt \in {MergeStep(has_processor, message, step.watch_info,
                                              embedded,
                                              HandlerClock(Len(pipeline_log) + 1))} :
                    \E insert \in InsertAnswers :
                    \E out \in {StoreStep(attempt, step.watch_info, table, stats,
                                          insert)} :
                      /\ out.insert_issued \/ insert = "ok"
                      /\ extraction_cache' = step.cache
                      /\ completion_calls' =
                            completion_calls + (IF step.called THEN 1 ELSE 0)
                      /\ table' = out.table
                      /\ stats' = out.stats
                      /\ pipeline_log' = Append(pipeline_log,
                            [message |-> message,
                             watch_info |-> step.watch_info,
                             embed |-> IF ~has_processor THEN "not_called"
                                       ELSE IF Truthy(embedded.vec) THEN "vector"
                                       ELSE "none",
                             vec |-> embedded.vec,
                             requests |-> Len(embedded.sent),
                             stage |-> attempt.stage,
                             insert_issued |-> out.insert_issued,
                             insert |-> insert,
                             rows |-> Len(out.table) - Len(table),
                             result |-> out.result])
    /\ UNCHANGED <<late_vars, standalone_vars, watch_extractor, has_processor, openai_api_key, started,
                   extract_log, brand_order, build_vars, merge_vars>>

\* process_message_with_rag called for one of the sample messages
ProcessMessage ==
    /\ started
    /\ Len(pipeline_log) < MaxHandled
    /\ \E message \in PipelineMessages : HandleMessage(message)
    /\ UNCHANGED delivery_vars

-----------------------------------------------------------------------------
(* One webhook delivery: webhook_event, src/app.py.  The handler contains   *)
(* no await, so one message is handled in one step; the external calls of   *)
(* the step are recorded in the order the handler issues them.              *)

MaxDelivery == 2

\* a text message whose text object has no body
BodylessMessage ==
    ExtractedMessage(PyDict([id |-> PyStr("wamid.4"), from |-> PyStr("33612345678"),
                             timestamp |-> PyStr("1700000000"), type |-> PyStr("text"),
                             text |-> PyDict([preview_url |-> PyFalse])]),
                     SampleContacts,
                     PyDict([phone_number_id |-> PyStr("1055"),
                             display_phone_number |-> PyStr("15550001111")]),
                     PyDict([id |-> PyStr("entry.1"), time |-> PyNum(1700000000)]),
                     WebhookNow)

DeliveryMessages == PipelineMessages \cup {BodylessMessage}

\* the lists extract_whatsapp_messages can return for one webhook body: every
\* message of a body has its own id
Deliveries ==
    {messages \in UNION {[1..n -> DeliveryMessages] : n \in 0..MaxDelivery} :
        \A i, j \in 1..Len(messages) : messages[i] = messages[j] => i = j}

\* message['text'][:50] in the log line raises TypeError: the text is None
PreviewRaises(message) == Get(message, "text", PyNone).t # "str"

LastInPayload(messages, done) ==
    CHOOSE i \in 1..Len(messages) \ done : \A j \in 1..Len(messages) \ done : j <= i

\* for message in messages: the message the loop takes next
NextInPayload(messages, done) ==
    CHOOSE i \in 1..Len(messages) \ done : \A j \in 1..Len(messages) \ done : i <= j

\* the external calls the last handler call issued, in order
IssuedCalls(calls_before, calls_after, handled) ==
    (IF calls_after > calls_before THEN <<"extraction">> ELSE <<>>)
    \o [k \in 1..handled.requests |-> "embedding"]
    \o (IF handled.insert_issued THEN <<"store">> ELSE <<>>)

\* the loop handles the next message and looks at result["success"]
WebhookHandle ==
    /\ delivery.status = "open"
    /\ 1..Len(delivery.messages) \ delivery.done # {}
    /\ \E i \in {NextInPayload(delivery.messages, delivery.done)} :
          /\ ~PreviewRaises(delivery.messages[i])
          /\ HandleMessage(delivery.messages[i])
          /\ delivery' =
                [delivery EXCEPT
                   !.done = @ \cup {i},
                   !.order = Append(@, i),
                   !.calls = @ \o [k \in 1..Len(IssuedCalls(completion_calls,
                                        completion_calls',
                                        pipeline_log'[Len(pipeline_log')])) |->
                                     <<i, IssuedCalls(completion_calls, completion_calls',
                                            pipeline_log'[Len(pipeline_log')])[k]>>],
                   !.success = Append(@, pipeline_log'[Len(pipeline_log')].result.success)]

\* the log line raises: the except branch answers 500
WebhookAbort ==
    /\ delivery.status = "open"
    /\ 1..Len(delivery.messages) \ delivery.done # {}
    /\ PreviewRaises(delivery.messages[NextInPayload(delivery.messages, delivery.done)])
    /\ delivery' = [delivery EXCEPT !.status = "error"]
    /\ UNCHANGED <<late_vars, standalone_vars, extractor_vars, pipeline_vars, build_vars, merge_vars>>

\* the loop is over: {"status": "received"}
WebhookReturn ==
    /\ delivery.status = "open"
    /\ 1..Len(delivery.messages) \ delivery.done = {}
    /\ delivery' = [delivery EXCEPT !.status = "received"]
    /\ UNCHANGED <<late_vars, standalone_vars, extractor_vars, pipeline_vars, build_vars, merge_vars>>

DeliveryOf(messages) ==
    [messages |-> messages, done |-> {}, order |-> <<>>, calls |-> <<>>,
     success |-> <<>>, status |-> "open"]

\* no delivery under way
DeliveryIdle == delivery = [DeliveryOf(<<>>) EXCEPT !.status = "none"]

-----------------------------------------------------------------------------
(* The context enrichment called on its own: _detect_group_message and      *)
(* _create_semantic_metadata on the contact and reply context                *)
(* extract_whatsapp_messages finds for a message.                            *)

\* contact_info.get('profile', {}).get(...) raises: profile is present and
\* is no dict
ProfileMissing(contact_info) ==
    ~HasGet(Get(contact_info, "profile", PyDict(EmptyDict)))

\* the profile name taken before the sender id and the reply context are
\* looked at
DetectGroupRaisesNameFirst(sender_wa_id, contact_info, context_info) ==
    \/ ProfileMissing(contact_info)
    \/ Get(Get(contact_info, "profile", PyDict(EmptyDict)), "name", PyStr("")).t # "str"

\* _detect_group_message raises AttributeError exactly when this holds: the
\* first two tests did not return, and the profile is no dict or
\* .get('name', '') is no string, so that .lower() fails
DetectGroupRaises(sender_wa_id, contact_info, context_info) ==
    /\ ~Contains(sender_wa_id, "@g.us")
    /\ ~(/\ Truthy(context_info)
         /\ \/ Truthy(Get(context_info, "from", PyNone))
            \/ Truthy(Get(context_info, "id", PyNone)))
    /\ \/ ProfileMissing(contact_info)
       \/ Get(Get(contact_info, "profile", PyDict(EmptyDict)), "name", PyStr("")).t # "str"

\* _create_semantic_metadata raises AttributeError exactly when this holds
SemanticMetadataRaises(contact_info, context_info) ==
    ProfileMissing(contact_info) \/ ~HasGet(context_info)

\* contacts.get(sender_wa_id, {}): no contact, a contact without profile,
\* with an empty profile, with a profile whose name is null, with a name
EnrichContacts ==
    {PyDict(EmptyDict),
     PyDict([wa_id |-> PyStr("33612345678")]),
     PyDict([wa_id |-> PyStr("33612345678"), profile |-> PyDict(EmptyDict)]),
     PyDict([wa_id |-> PyStr("33612345678"), profile |-> PyDict([name |-> PyNone])]),
     PyDict([wa_id |-> PyStr("33612345678"),
             profile |-> PyDict([name |-> PyStr("Groupe Montres")])])}

\* message.get('context', {}) or {}: none, a reply, a quotation
EnrichContexts ==
    {PyDict(EmptyDict),
     PyDict([from |-> PyStr("33698765432"), id |-> PyStr("wamid.1")]),
     PyDict([quoted |-> PyTrue])}

EnrichTexts == {"", "Cherche Omega", "Vends Rolex 8500€ ?"}

EnrichSenders == {"33612345678", "120363025@g.us"}

EnrichInputs ==
    [sender_wa_id : EnrichSenders, contact_info : EnrichContacts,
     message_text : EnrichTexts, context_info : EnrichContexts]

\* both functions applied to the input, each with the exception that left
\* it ("" when it returned) and the value it returned
Enrich ==
    /\ ~enrich_out.done
    /\ enrich_out' =
          [done |-> TRUE,
           group_exc |->
              IF DetectGroupRaises(enrich_in.sender_wa_id, enrich_in.contact_info,
                                   enrich_in.context_info)
              THEN "AttributeError" ELSE "",
           is_group |->
              IF DetectGroupRaises(enrich_in.sender_wa_id, enrich_in.contact_info,
                                   enrich_in.context_info)
              THEN PyNone
              ELSE PyBool(_detect_group_message(enrich_in.sender_wa_id,
                                                enrich_in.contact_info,
                                                enrich_in.context_info)),
           semantic_exc |->
              IF SemanticMetadataRaises(enrich_in.contact_info, enrich_in.context_info)
              THEN "AttributeError" ELSE "",
           semantic |->
              IF SemanticMetadataRaises(enrich_in.contact_info, enrich_in.context_info)
              THEN PyNone
              ELSE _create_semantic_metadata(enrich_in.sender_wa_id,
                                             enrich_in.contact_info,
                                             enrich_in.message_text,
                                             enrich_in.context_info, WebhookNow)]
    /\ UNCHANGED <<late_vars, delivery_vars, enrich_in, extractor_vars, pipeline_vars, build_vars, merge_vars,
                   query_vars, batch_vars>>

EnrichIdle ==
    /\ enrich_in = [sender_wa_id |-> "", contact_info |-> PyDict(EmptyDict),
                    message_text |-> "", context_info |-> PyDict(EmptyDict)]
    /\ enrich_out = [done |-> FALSE, group_exc |-> "", is_group |-> PyNone,
                     semantic_exc |-> "", semantic |-> PyNone]

-----------------------------------------------------------------------------
(* LLMWatchExtractor.extract_batch: src/src/llm_watch_extractor.py.  The     *)
(* completion service gives completions[i] if the call for messages[i] is    *)
(* made.  Results: the records in order, the cache afterwards, and for each  *)
(* message whether the service was called.                                   *)

\* LLMWatchInfo(confidence_score=0.0, llm_reasoning=f"Erreur batch: {e}")
BatchErrorRecord(e) ==
    LLMWatchInfo([confidence_score |-> PyNum(0),
                  llm_reasoning |-> PyStr("Erreur batch: " \o e)])

\* one turn of the loop of extract_batch: [ret, cache, called]
BatchTurn(cache, message, completion) ==
    IF IsBlank(Get(message, "content", PyStr("")).s)
    THEN [ret |-> LLMWatchInfo([confidence_score |-> PyNum(0)]),
          cache |-> cache, called |-> FALSE]
    ELSE CHOOSE turn \in
            {[ret |-> IF r.raised THEN BatchErrorRecord("Exception") ELSE r.ret,
              cache |-> r.cache, called |-> r.called] :
                r \in {LLM_extract_watch_info(cache,
                                              Get(message, "content", PyStr("")).s,
                                              Get(message, "metadata", PyDict(EmptyDict)),
                                              completion)}} : TRUE

\* extract_watch_info(content, metadata) for one message: [ret, cache, called]
ExtractTurn(cache, message, completion) ==
    CHOOSE turn \in
        {[ret |-> r.ret, cache |-> r.cache, called |-> r.called] :
            r \in {LLM_extract_watch_info(cache,
                                          Get(message, "content", PyStr("")).s,
                                          Get(message, "metadata", PyNone),
                                          completion)}} : TRUE

RECURSIVE BatchFrom(_, _, _, _)
BatchFrom(cache, messages, completions, i) ==
    IF i > Len(messages) THEN [ret |-> <<>>, cache |-> cache, called |-> <<>>]
    ELSE CHOOSE out \in UNION
            {{[ret |-> <<turn.ret>> \o rest.ret, cache |-> rest.cache,
               called |-> <<turn.called>> \o rest.called] :
                 rest \in {BatchFrom(turn.cache, messages, completions, i + 1)}} :
                    turn \in {BatchTurn(cache, messages[i], completions[i])}} : TRUE

\* LLMWatchExtractor.extract_batch(messages)
extract_batch(cache, messages, completions) == BatchFrom(cache, messages, completions, 1)

\* extract_watch_info called on the messages one after the other
RECURSIVE ExtractEachFrom(_, _, _, _)
ExtractEachFrom(cache, messages, completions, i) ==
    IF i > Len(messages) THEN [ret |-> <<>>, cache |-> cache, called |-> <<>>]
    ELSE CHOOSE out \in UNION
            {{[ret |-> <<turn.ret>> \o rest.ret, cache |-> rest.cache,
               called |-> <<turn.called>> \o rest.called] :
                 rest \in {ExtractEachFrom(turn.cache, messages, completions, i + 1)}} :
                    turn \in {ExtractTurn(cache, messages[i], completions[i])}} : TRUE

MaxBatch == 2

\* messages of a batch: a text with and without metadata, an empty and a
\* whitespace-only content, and a message without content
BatchMessages ==
    {PyDict([content |-> PyStr("Vends Rolex 8500€")]),
     PyDict([content |-> PyStr("Vends Rolex 8500€"), metadata |-> SampleMetadata]),
     PyDict([content |-> PyStr("")]),
     PyDict([content |-> PyStr("  ")]),
     PyDict(EmptyDict)}

BatchCompletions ==
    {[raises |-> TRUE, err |-> "APIConnectionError", parses |-> FALSE, json |-> PyNone],
     [raises |-> FALSE, err |-> "", parses |-> TRUE, json |-> JsonWithConfidence(PyNum(85))],
     [raises |-> FALSE, err |-> "", parses |-> TRUE, json |-> JsonWithUrgency(PyNum(9))]}

BatchInputs ==
    UNION {[messages : [1..n -> BatchMessages], completions : [1..n -> BatchCompletions]] :
              n \in 0..MaxBatch}

ExtractBatch ==
    /\ ~batch_out.done
    /\ \E out \in {extract_batch(<<>>, batch_in.messages, batch_in.completions)} :
          batch_out' = [done |-> TRUE, ret |-> out.ret, cache |-> out.cache,
                        called |-> out.called]
    /\ UNCHANGED <<late_vars, delivery_vars, batch_in, extractor_vars, pipeline_vars, build_vars, merge_vars,
                   query_vars, enrich_vars>>

BatchIdle ==
    /\ batch_in = [messages |-> <<>>, completions |-> <<>>]
    /\ batch_out = [done |-> FALSE, ret |-> <<>>, cache |-> <<>>, called |-> <<>>]

-----------------------------------------------------------------------------
(* RAGSearcher.generate_query_embedding: src/src/rag_searcher.py.  The       *)
(* query texts are numbered: query k is the k-th distinct text.  The cache   *)
(* is the dict self.embedding_cache as the sequence of its items in          *)
(* iteration order, which for a Python dict is the order of insertion.       *)

embedding_cache_limit == 100

MaxInserts == 102

\* the keys of the dict
CachedQueries(cache) == {cache[i].query : i \in 1..Len(cache)}

\* self.embedding_cache[query]
CachedEmbedding(cache, query) ==
    (CHOOSE item \in {cache[i] : i \in 1..Len(cache)} : item.query = query).embedding

\* the vector the embeddings service returns for a text
QueryVector(query) == [of |-> query, dim |-> embedding_dimension]

CacheFullOffByOne(cache) == Len(cache) > embedding_cache_limit

\* len(self.embedding_cache) >= 100
CacheFull(cache) == Len(cache) >= embedding_cache_limit

newest_key(cache) == cache[Len(cache)].query

\* next(iter(self.embedding_cache))
oldest_key(cache) == cache[1].query

\* del self.embedding_cache[key]
WithoutKey(cache, key) == SelectSeq(cache, LAMBDA item : item.query # key)

\* generate_query_embedding(query) on a searcher whose cache is cache, the
\* embeddings service answering "ok" or "raises": the value returned, the
\* cache afterwards, and what happened.  stamp numbers the insert; the code
\* keeps no such number, it is recorded with the item to tell the items'
\* ages apart.
generate_query_embedding(cache, query, answer, stamp) ==
    IF query \in CachedQueries(cache)
    THEN [ret |-> CachedEmbedding(cache, query), cache |-> cache,
          outcome |-> "hit", evicted |-> <<>>]
    ELSE IF answer = "raises"
    THEN [ret |-> PyNone, cache |-> cache, outcome |-> "failed", evicted |-> <<>>]
    ELSE [ret |-> QueryVector(query),
          cache |-> Append(IF CacheFull(cache)
                           THEN WithoutKey(cache, oldest_key(cache))
                           ELSE cache,
                           [query |-> query, embedding |-> QueryVector(query),
                            inserted_at |-> stamp]),
          outcome |-> "stored",
          evicted |-> IF CacheFull(cache)
                      THEN SelectSeq(cache, LAMBDA item : item.query = oldest_key(cache))
                      ELSE <<>>]

\* the texts a call is made with: one that is not in the cache (new, or
\* evicted earlier), or the text of the oldest or of the newest item
QueryCandidates ==
    {query \in 1..(query_inserts + 1) : query \notin CachedQueries(embedding_cache)}
    \cup (IF embedding_cache = <<>> THEN {}
          ELSE {oldest_key(embedding_cache), newest_key(embedding_cache)})

EmbeddingAnswers == {"ok", "raises"}

GenerateQueryEmbedding ==
    \E query \in QueryCandidates, answer \in EmbeddingAnswers :
      \E call \in {generate_query_embedding(embedding_cache, query, answer,
                                            query_inserts + 1)} :
        /\ call.outcome = "stored" => query_inserts < MaxInserts
        /\ embedding_cache' = call.cache
        /\ query_inserts' = query_inserts + (IF call.outcome = "stored" THEN 1 ELSE 0)
        /\ query_log' = [query |-> query, outcome |-> call.outcome, ret |-> call.ret,
                         evicted |-> call.evicted,
                         last_hit |-> IF call.outcome = "hit" THEN query
                                      ELSE query_log.last_hit]
        /\ UNCHANGED <<late_vars, delivery_vars, extractor_vars, pipeline_vars, build_vars, merge_vars, batch_vars,
                       enrich_vars>>

\* a searcher just constructed: self.embedding_cache = {}
QueryIdle ==
    /\ embedding_cache = <<>>
    /\ query_inserts = 0
    /\ query_log = [query |-> 0, outcome |-> "none", ret |-> PyNone, evicted |-> <<>>,
                    last_hit |-> 0]

-----------------------------------------------------------------------------
(* Two workers inside generate_query_embedding on one searcher.  The method *)
(* takes no lock, so a worker can be suspended between any two of its       *)
(* statements: the membership test, the service call, the length test, the  *)
(* read of the oldest key, the del, and the store with the return.          *)

Workers == {1, 2}

\* a cache holding the items 1..len, item 1 the oldest
CacheOfLen(len) ==
    [i \in 1..len |-> [query |-> i, embedding |-> QueryVector(i), inserted_at |-> i]]

\* the searcher with len items and the texts the two workers ask for
RaceOf(len, queries) ==
    [status |-> "open",
     cache |-> CacheOfLen(len),
     query |-> queries,
     pc |-> [w \in Workers |-> "check"],
     embedding |-> [w \in Workers |-> PyNone],
     oldest |-> [w \in Workers |-> 0],
     ret |-> [w \in Workers |-> PyNone],
     exc |-> [w \in Workers |-> ""]]

\* caches one below the limit and at the limit; two new texts, the same new
\* text twice, a cached text and a new one
Races ==
    {RaceOf(len, queries) :
        len \in {embedding_cache_limit - 1, embedding_cache_limit},
        queries \in {<<embedding_cache_limit + 1, embedding_cache_limit + 2>>,
                     <<embedding_cache_limit + 1, embedding_cache_limit + 1>>,
                     <<1, embedding_cache_limit + 1>>}}

\* the except branch: the error is logged and None returned
RaceFailed(w, e) ==
    race' = [race EXCEPT !.pc[w] = "done", !.ret[w] = PyNone, !.exc[w] = e]

\* if query in self.embedding_cache: return self.embedding_cache[query]
RaceCheck(w) ==
    /\ race.status = "open"
    /\ race.pc[w] = "check"
    /\ race' = IF race.query[w] \in CachedQueries(race.cache)
               THEN [race EXCEPT !.pc[w] = "done",
                                 !.ret[w] = CachedEmbedding(race.cache, race.query[w])]
               ELSE [race EXCEPT !.pc[w] = "create"]
    /\ UNCHANGED <<keyed, storing, realtime, delivery_vars, standalone_vars,
                   extractor_vars, pipeline_vars, build_vars, merge_vars>>

\* response = self.openai_client.embeddings.create(...); embedding = ...
RaceCreate(w) ==
    /\ race.status = "open"
    /\ race.pc[w] = "create"
    /\ \E answer \in EmbeddingAnswers :
          IF answer = "raises" THEN RaceFailed(w, "APIConnectionError")
          ELSE race' = [race EXCEPT !.pc[w] = "len",
                                    !.embedding[w] = QueryVector(race.query[w])]
    /\ UNCHANGED <<keyed, storing, realtime, delivery_vars, standalone_vars,
                   extractor_vars, pipeline_vars, build_vars, merge_vars>>

\* if len(self.embedding_cache) >= 100:
RaceLen(w) ==
    /\ race.status = "open"
    /\ race.pc[w] = "len"
    /\ race' = [race EXCEPT !.pc[w] = IF CacheFull(race.cache) THEN "oldest" ELSE "store"]
    /\ UNCHANGED <<keyed, storing, realtime, delivery_vars, standalone_vars,
                   extractor_vars, pipeline_vars, build_vars, merge_vars>>

\* oldest_key = next(iter(self.embedding_cache))
RaceOldest(w) ==
    /\ race.status = "open"
    /\ race.pc[w] = "oldest"
    /\ IF race.cache = <<>> THEN RaceFailed(w, "StopIteration")
       ELSE race' = [race EXCEPT !.pc[w] = "del", !.oldest[w] = oldest_key(race.cache)]
    /\ UNCHANGED <<keyed, storing, realtime, delivery_vars, standalone_vars,
                   extractor_vars, pipeline_vars, build_vars, merge_vars>>

\* del self.embedding_cache[oldest_key]: KeyError when the key has gone
RaceDel(w) ==
    /\ race.status = "open"
    /\ race.pc[w] = "del"
    /\ IF race.oldest[w] \notin CachedQueries(race.cache) THEN RaceFailed(w, "KeyError")
       ELSE race' = [race EXCEPT !.pc[w] = "store",
                                 !.cache = WithoutKey(race.cache, race.oldest[w])]
    /\ UNCHANGED <<keyed, storing, realtime, delivery_vars, standalone_vars,
                   extractor_vars, pipeline_vars, build_vars, merge_vars>>

\* self.embedding_cache[query] = embedding: a key that is there keeps its place
StoredIn(cache, query, embedding) ==
    IF query \in CachedQueries(cache)
    THEN [i \in 1..Len(cache) |->
             IF cache[i].query = query THEN [cache[i] EXCEPT !.embedding = embedding]
             ELSE cache[i]]
    ELSE Append(cache, [query |-> query, embedding |-> embedding,
                        inserted_at |-> Len(cache) + 1])

\* self.embedding_cache[query] = embedding; return embedding
RaceStore(w) ==
    /\ race.status = "open"
    /\ race.pc[w] = "store"
    /\ race' = [race EXCEPT !.pc[w] = "done",
                            !.ret[w] = race.embedding[w],
                            !.cache = StoredIn(race.cache, race.query[w], race.embedding[w])]
    /\ UNCHANGED <<keyed, storing, realtime, delivery_vars, standalone_vars,
                   extractor_vars, pipeline_vars, build_vars, merge_vars>>

-----------------------------------------------------------------------------
(* EmbeddingProcessor.process_and_store_conversation *)

\* self.batch_size
batch_size == 100

\* the fields of the dataclass MessageEmbedding, and those without a default
MessageEmbeddingFields ==
    {"id", "phone_number", "message_content", "message_timestamp", "sender", "embedding",
     "is_outgoing", "media_type", "content_hash", "group_name", "message_type",
     "intent_score", "watch_brand", "watch_model", "watch_reference", "price_mentioned",
     "currency", "price_type", "condition_mentioned", "year_mentioned", "size_mentioned",
     "movement_type", "seller_type", "location_mentioned", "shipping_info",
     "authenticity_mentioned", "extracted_keywords", "sentiment_score", "urgency_level",
     "detailed_extraction", "search_metadata"}

RequiredFields ==
    {"id", "phone_number", "message_content", "message_timestamp", "sender", "embedding",
     "is_outgoing"}

\* the keyword arguments process_whatsapp_messages calls MessageEmbedding with
EntryKeywords ==
    {"id", "phone_number", "message_content", "timestamp", "sender", "embedding",
     "is_outgoing", "media_type", "content_hash"}

\* MessageEmbedding(**keywords) raises TypeError: a keyword that is no field,
\* or a field without default that is not given
ConstructorRaises(keywords) ==
    \/ ~(keywords \subseteq MessageEmbeddingFields)
    \/ ~(RequiredFields \subseteq keywords)

SkippedContents == {"", "[MÉDIA]", "[MESSAGE NON RECONNU]"}

\* msg.get('content', '').strip()
StrippedContent(msg) == Strip(Str(Get(msg, "content", PyStr(""))))

_create_content_hash(content, phone_number, timestamp) ==
    md5_hexdigest(phone_number \o "_" \o timestamp \o "_" \o content)

\* the hash process_whatsapp_messages computes for msg
MessageHash(msg, phone_number) ==
    _create_content_hash(StrippedContent(msg), phone_number,
                         Str(Get(msg, "timestamp", PyStr("now"))))

\* msg passes both "continue" tests of the preparation loop
IsNewMessage(msg, phone_number, existing_hashes) ==
    /\ StrippedContent(msg) \notin SkippedContents
    /\ MessageHash(msg, phone_number) \notin existing_hashes

valid_messages(messages, phone_number, existing_hashes) ==
    SelectSeq(messages, LAMBDA msg : IsNewMessage(msg, phone_number, existing_hashes))

\* generate_embeddings_batch: one vector or None per text; the service is
\* called once for the texts that are not empty after cleaning
generate_embeddings_batch(texts, answer) ==
    [i \in 1..Len(texts) |->
        IF _clean_message_content(texts[i]) = "" \/ answer = "raises"
        THEN PyNone
        ELSE PyVec(embedding_dimension)]

\* the entries built for the messages that got a vector
EntriesOf(valid, embeddings, phone_number) ==
    [k \in 1..Len(SelectSeq(embeddings, LAMBDA e : e # PyNone)) |->
        [content_hash |->
            MessageHash(SelectSeq(valid,
                            LAMBDA msg : _clean_message_content(StrippedContent(msg)) # "")[k],
                        phone_number),
         embedding |-> PyVec(embedding_dimension)]]

\* process_whatsapp_messages: the list returned.  The first message with a
\* vector reaches the constructor call; when that raises, the except branch
\* returns the empty list.
process_whatsapp_messages(messages, phone_number, existing_hashes, answer) ==
    IF valid_messages(messages, phone_number, existing_hashes) = <<>> THEN <<>>
    ELSE CHOOSE entries \in
        {IF (\E i \in 1..Len(embeddings) : embeddings[i] # PyNone)
                /\ ConstructorRaises(EntryKeywords)
         THEN <<>>
         ELSE EntriesOf(valid_messages(messages, phone_number, existing_hashes),
                        embeddings, phone_number) :
            embeddings \in
                {generate_embeddings_batch(
                    [i \in 1..Len(valid_messages(messages, phone_number, existing_hashes)) |->
                        StrippedContent(
                            valid_messages(messages, phone_number, existing_hashes)[i])],
                    answer)}} : TRUE

\* store_messages_batch: the rows the insert returned; none when it raised or
\* returned no data
store_messages_batch(batch, store_answer) ==
    IF batch = <<>> \/ store_answer # "ok" THEN <<>> ELSE batch

\* the rows stored by the loop over the batches, from entry i on
RECURSIVE StoredFrom(_, _, _)
StoredFrom(entries, i, store_answer) ==
    IF i > Len(entries) THEN <<>>
    ELSE store_messages_batch(SubSeq(entries, i, Min(i + batch_size - 1, Len(entries))),
                              store_answer)
         \o StoredFrom(entries, i + batch_size, store_answer)

\* process_and_store_conversation: the value returned and the rows inserted
process_and_store_conversation(messages, phone_number, existing_hashes, answer, store_answer) ==
    CHOOSE result \in
        {IF message_embeddings = <<>> THEN [ret |-> TRUE, rows |-> <<>>]
         ELSE [ret |-> Len(StoredFrom(message_embeddings, 1, store_answer)) > 0,
               rows |-> StoredFrom(message_embeddings, 1, store_answer)] :
            message_embeddings \in
                {process_whatsapp_messages(messages, phone_number, existing_hashes,
                                           answer)}} : TRUE

StorePhone == "33612345678"

\* the dicts _store_message_realtime builds: two texts, an empty one, a medium
StoreMessages ==
    {PyDict([content |-> PyStr("Vends Rolex 8500€"), timestamp |-> PyStr("t1")]),
     PyDict([content |-> PyStr("Cherche Omega"), timestamp |-> PyStr("t2")]),
     PyDict([content |-> PyStr("  "), timestamp |-> PyStr("t3")]),
     PyDict([content |-> PyStr("[MÉDIA]"), timestamp |-> PyStr("t4")])}

MaxConversation == 2

Conversations == UNION {[1..n -> StoreMessages] : n \in 0..MaxConversation}

\* check_existing_messages: nothing stored yet, or the first text stored
ExistingHashes ==
    {{}, {_create_content_hash("Vends Rolex 8500€", StorePhone, "t1")}}

StoreAnswers == {"ok", "raises", "empty"}

StoreInputs ==
    [messages : Conversations, existing : ExistingHashes, answer : EmbeddingAnswers,
     store_answer : StoreAnswers]

ProcessAndStore ==
    /\ ~storing.done
    /\ \E result \in {process_and_store_conversation(
                          storing.in.messages, StorePhone, storing.in.existing,
                          storing.in.answer, storing.in.store_answer)} :
          storing' = [storing EXCEPT !.done = TRUE, !.ret = result.ret, !.rows = result.rows]
    /\ UNCHANGED <<keyed, race, realtime, delivery_vars, standalone_vars,
                   extractor_vars, pipeline_vars, build_vars, merge_vars>>

-----------------------------------------------------------------------------
(* WhatsAppRealtimeAPI: the contact contexts kept by the message handler.   *)
(* Each webhook body is handled by a background task of its own; a handler  *)
(* gives way to the other tasks only in the sleep before an automatic       *)
(* response, and updates the contact's context after it.                    *)

\* the number of messages a context keeps
context_limit == 10

\* message.content[:100]
ContentHead(content) == SubSeq(content, 1, Min(100, Len(content)))

\* the context _update_contact_context creates for a new contact
NewContext(message) ==
    [last_message_time |-> message.timestamp, message_count |-> 0, last_messages |-> <<>>]

\* if len(context['last_messages']) > 10: ... = context['last_messages'][-10:]
LastMessages(last_messages) ==
    IF Len(last_messages) > context_limit
    THEN SubSeq(last_messages, Len(last_messages) - context_limit + 1, Len(last_messages))
    ELSE last_messages

\* the context after the message has been added to it
UpdatedContext(context, message) ==
    [last_message_time |-> message.timestamp,
     message_count |-> context.message_count + 1,
     last_messages |->
        LastMessages(Append(context.last_messages,
                            [content |-> ContentHead(message.content),
                             timestamp |-> message.timestamp,
                             type |-> message.message_type]))]

\* _update_contact_context: self.active_contacts afterwards
_update_contact_context(active_contacts, phone_number, message) ==
    IF phone_number \in DOMAIN active_contacts
    THEN [active_contacts EXCEPT ![phone_number] = UpdatedContext(@, message)]
    ELSE (phone_number :> UpdatedContext(NewContext(message), message)) @@ active_contacts

question_indicators ==
    <<"?", "quoi", "comment", "pourquoi", "quand", "où", "qui",
      "peux-tu", "pourrais-tu", "aide", "explique", "dis-moi",
      "recherche", "trouve", "montre", "rappel">>

\* is_query or starts_with_query: every query starter is a question indicator
IsQuery(content) == ContainsAny(Strip(Lower(content)), question_indicators)

\* the handler reaches "await asyncio.sleep(self.response_delay)": a text that
\* is a query, answered by the searcher, automatic responses switched on
Sleeps(enabled, message, answered) ==
    /\ message.message_type = "text"
    /\ Strip(message.content) # ""
    /\ IsQuery(message.content)
    /\ answered
    /\ enabled

ContactPhones == {"+33612345678", "+33698765432"}

ContactTexts == {"bonjour", "Où est la Rolex ?"}

MaxArrivals == 3

\* the k-th message received: its timestamp is its place in the arrivals
IncomingMessage(k, phone_number, content) ==
    [id |-> k, phone_number |-> phone_number, content |-> content, timestamp |-> k,
     message_type |-> "text"]

\* the messages 1..n of the first contact, all handled before
RECURSIVE HandledBefore(_)
HandledBefore(n) ==
    IF n = 0 THEN <<>>
    ELSE Append(HandledBefore(n - 1), IncomingMessage(n, "+33612345678", "bonjour"))

RECURSIVE ContactsAfter(_)
ContactsAfter(messages) ==
    IF messages = <<>> THEN <<>>
    ELSE _update_contact_context(ContactsAfter(SubSeq(messages, 1, Len(messages) - 1)),
                                 messages[Len(messages)].phone_number,
                                 messages[Len(messages)])

\* an API that has handled n messages of one contact; updated records, per
\* contact, the messages added to its context since the context was created
RealtimeAfter(n, enabled) ==
    [status |-> "open",
     auto_response_enabled |-> enabled,
     active_contacts |-> ContactsAfter(HandledBefore(n)),
     updated |-> IF n = 0 THEN <<>> ELSE ("+33612345678" :> HandledBefore(n)),
     sleeping |-> {},
     arrivals |-> n,
     first |-> n + 1]

\* step 4 of the handler for message, with the record of it
ContextUpdate(api, message) ==
    [api EXCEPT
        !.active_contacts =
            _update_contact_context(api.active_contacts, message.phone_number, message),
        !.updated =
            IF message.phone_number \in DOMAIN api.updated
            THEN [api.updated EXCEPT ![message.phone_number] = Append(@, message)]
            ELSE (message.phone_number :> <<message>>) @@ api.updated]

\* _handle_incoming_message up to its first suspension: the message is marked
\* read and stored, and either the handler sleeps before its automatic
\* response or it goes on to update the context
HandleIncoming ==
    /\ realtime.status = "open"
    /\ realtime.arrivals < realtime.first - 1 + MaxArrivals
    /\ \E phone_number \in ContactPhones, content \in ContactTexts, answered \in BOOLEAN :
        \E message \in {IncomingMessage(realtime.arrivals + 1, phone_number, content)} :
          realtime' =
             IF Sleeps(realtime.auto_response_enabled, message, answered)
             THEN [realtime EXCEPT !.arrivals = @ + 1, !.sleeping = @ \cup {message}]
             ELSE [ContextUpdate(realtime, message) EXCEPT !.arrivals = @ + 1]
    /\ UNCHANGED <<keyed, race, storing, delivery_vars, standalone_vars,
                   extractor_vars, pipeline_vars, build_vars, merge_vars>>

\* the sleep is over: the response is sent and the context updated
ResumeHandling ==
    /\ realtime.status = "open"
    /\ \E message \in realtime.sleeping :
          realtime' = [ContextUpdate(realtime, message) EXCEPT !.sleeping = @ \ {message}]
    /\ UNCHANGED <<keyed, race, storing, delivery_vars, standalone_vars,
                   extractor_vars, pipeline_vars, build_vars, merge_vars>>

\* the contacts that stay: last_time < cutoff_time removes the others
Active(active_contacts, cutoff_time) ==
    {phone \in DOMAIN active_contacts : active_contacts[phone].last_message_time >= cutoff_time}

\* cleanup_inactive_contacts, the clock giving cutoff_time
CleanupInactiveContacts ==
    /\ realtime.status = "open"
    /\ \E cutoff_time \in 1..(realtime.arrivals + 1) :
        /\ Active(realtime.active_contacts, cutoff_time) # DOMAIN realtime.active_contacts
        /\ realtime' =
             [realtime EXCEPT
                !.active_contacts =
                    [phone \in Active(realtime.active_contacts, cutoff_time) |->
                        realtime.active_contacts[phone]],
                !.updated =
                    [phone \in Active(realtime.active_contacts, cutoff_time) |->
                        realtime.updated[phone]]]
    /\ UNCHANGED <<keyed, race, storing, delivery_vars, standalone_vars,
                   extractor_vars, pipeline_vars, build_vars, merge_vars>>

StandaloneIdle == QueryIdle /\ BatchIdle /\ EnrichIdle

KeyIdle == keyed = [done |-> FALSE]
RaceIdle == race = [status |-> "none"]
StoreIdle == storing = [done |-> FALSE]
ContextIdle == realtime = [status |-> "none"]
LateIdle == KeyIdle /\ RaceIdle /\ StoreIdle /\ ContextIdle

-----------------------------------------------------------------------------
ExtractorInit ==
    /\ extraction_cache = <<>>
    /\ completion_calls = 0
    /\ extract_log = <<>>
    /\ brand_order \in BrandOrders

\* the watch counters of app.stats
ZeroStats ==
    [watch_messages_detected |-> 0, sales_detected |-> 0, wanted_detected |-> 0,
     questions_detected |-> 0, total_value_detected |-> 0]

\* no extractor constructed yet
ExtractorIdle ==
    /\ extraction_cache = <<>>
    /\ completion_calls = 0
    /\ extract_log = <<>>
    /\ brand_order = watch_brands

PipelineInit ==
    /\ watch_extractor = "unset"
    /\ has_processor = FALSE
    /\ openai_api_key = FALSE
    /\ started = FALSE
    /\ table = <<>>
    /\ stats = ZeroStats
    /\ pipeline_log = <<>>

BuildIdle ==
    /\ build_in = [text |-> "", meta |-> PyNone]
    /\ build_out = [done |-> FALSE, text |-> ""]

MergeIdle ==
    /\ merge_in = [watch_info |-> PyNone, whatsapp_metadata |-> PyNone, content |-> ""]
    /\ merge_out = [done |-> FALSE, exc |-> "", entry |-> PyNone]
    /\ merge_again = [done |-> FALSE, exc |-> "", entry |-> PyNone]

\* the state after the module is imported and the objects are constructed
Init ==
    ExtractorInit /\ PipelineInit /\ BuildIdle /\ MergeIdle /\ StandaloneIdle /\ DeliveryIdle /\ LateIdle

\* the builder about to be applied to one input
InitBuild ==
    /\ ExtractorInit /\ PipelineInit /\ MergeIdle /\ StandaloneIdle /\ DeliveryIdle /\ LateIdle
    /\ build_in \in [text : BuildTexts, meta : BuildMetas]
    /\ build_out = [done |-> FALSE, text |-> ""]

NextExtract == LLMExtract \/ PatternExtract \/ ClearCache

SpecExtract == Init /\ [][NextExtract]_vars

NextBuild == Build

SpecBuild == InitBuild /\ [][NextBuild]_vars

\* the merger about to be applied to one input
InitMerge ==
    /\ ExtractorIdle /\ PipelineInit /\ BuildIdle /\ StandaloneIdle /\ DeliveryIdle /\ LateIdle
    /\ merge_in \in [watch_info : MergeRecords, whatsapp_metadata : MergeEnvelopes,
                     content : MergeTexts]
    /\ merge_out = [done |-> FALSE, exc |-> "", entry |-> PyNone]
    /\ merge_again = [done |-> FALSE, exc |-> "", entry |-> PyNone]

NextMerge == Merge \/ MergeAgain

SpecMerge == InitMerge /\ [][NextMerge]_vars

\* a searcher on its own, the rest of the program idle
InitQuery ==
    ExtractorIdle /\ PipelineInit /\ BuildIdle /\ MergeIdle /\ StandaloneIdle /\ DeliveryIdle /\ LateIdle

NextQuery == GenerateQueryEmbedding

SpecQuery == InitQuery /\ [][NextQuery]_vars

\* extract_batch applied to one list of messages by a new extractor
InitBatch ==
    /\ ExtractorIdle /\ PipelineInit /\ BuildIdle /\ MergeIdle /\ QueryIdle /\ EnrichIdle
    /\ DeliveryIdle /\ LateIdle
    /\ batch_in \in BatchInputs
    /\ batch_out = [done |-> FALSE, ret |-> <<>>, cache |-> <<>>, called |-> <<>>]

NextBatch == ExtractBatch

SpecBatch == InitBatch /\ [][NextBatch]_vars

\* the enrichment applied to one sender, contact, text and reply context
InitEnrich ==
    /\ ExtractorIdle /\ PipelineInit /\ BuildIdle /\ MergeIdle /\ QueryIdle /\ BatchIdle
    /\ DeliveryIdle /\ LateIdle
    /\ enrich_in \in EnrichInputs
    /\ enrich_out = [done |-> FALSE, group_exc |-> "", is_group |-> PyNone,
                     semantic_exc |-> "", semantic |-> PyNone]

NextEnrich == Enrich

SpecEnrich == InitEnrich /\ [][NextEnrich]_vars

\* webhook_event about to handle one delivery, for every value of the two
\* module globals
InitDelivery ==
    /\ extraction_cache = <<>>
    /\ completion_calls = 0
    /\ extract_log = <<>>
    /\ BuildIdle /\ MergeIdle /\ StandaloneIdle /\ LateIdle
    /\ watch_extractor \in {"llm", "regex", "none"}
    /\ brand_order = watch_brands
    /\ has_processor \in BOOLEAN
    /\ openai_api_key = (has_processor \/ watch_extractor = "llm")
    /\ started = TRUE
    /\ table = <<>>
    /\ stats = ZeroStats
    /\ pipeline_log = <<>>
    /\ delivery \in {DeliveryOf(messages) : messages \in Deliveries}

NextDelivery == WebhookHandle \/ WebhookAbort \/ WebhookReturn

SpecDelivery == InitDelivery /\ [][NextDelivery]_vars

\* the server before app is imported
InitServer ==
    ExtractorIdle /\ PipelineInit /\ BuildIdle /\ MergeIdle /\ StandaloneIdle /\ DeliveryIdle /\ LateIdle

\* the server: import, startup, then messages handled one at a time
Next == Import \/ Startup \/ ProcessMessage

Spec == InitServer /\ [][Next]_vars

(* The handler for every value the module assigns to its two globals        *)
(* (watch_extractor: lines 46, 51 and 55; embedding_processor: lines 77     *)
(* and 135), whatever start-up set them.  Import and Startup above reach    *)
(* only the combinations in which a processor comes with the LLM extractor. *)
InitHandler ==
    /\ extraction_cache = <<>>
    /\ completion_calls = 0
    /\ extract_log = <<>>
    /\ BuildIdle /\ MergeIdle /\ StandaloneIdle /\ DeliveryIdle /\ LateIdle
    /\ watch_extractor \in {"llm", "regex", "none"}
    /\ brand_order \in IF watch_extractor = "regex" THEN BrandOrders ELSE {watch_brands}
    /\ has_processor \in BOOLEAN
    /\ openai_api_key = (has_processor \/ watch_extractor = "llm")
    /\ started = TRUE
    /\ table = <<>>
    /\ stats = ZeroStats
    /\ pipeline_log = <<>>

NextHandler == ProcessMessage

SpecHandler == InitHandler /\ [][NextHandler]_vars

\* two workers entering generate_query_embedding on one searcher
InitRace ==
    /\ ExtractorIdle /\ PipelineInit /\ BuildIdle /\ MergeIdle /\ StandaloneIdle
    /\ DeliveryIdle /\ KeyIdle /\ StoreIdle /\ ContextIdle
    /\ race \in Races

NextRace ==
    \E w \in Workers :
        \/ RaceCheck(w)
        \/ RaceCreate(w)
        \/ RaceLen(w)
        \/ RaceOldest(w)
        \/ RaceDel(w)
        \/ RaceStore(w)

SpecRace == InitRace /\ [][NextRace]_vars

\* process_and_store_conversation about to be applied to one conversation
InitStore ==
    /\ ExtractorIdle /\ PipelineInit /\ BuildIdle /\ MergeIdle /\ StandaloneIdle
    /\ DeliveryIdle /\ KeyIdle /\ RaceIdle /\ ContextIdle
    /\ storing \in {[done |-> FALSE, in |-> in, ret |-> FALSE, rows |-> <<>>] :
                      in \in StoreInputs}

NextStore == ProcessAndStore

SpecStore == InitStore /\ [][NextStore]_vars

\* an API that has handled no message, one message less than a context
\* keeps, or two more
InitRealtime ==
    /\ ExtractorIdle /\ PipelineInit /\ BuildIdle /\ MergeIdle /\ StandaloneIdle
    /\ DeliveryIdle /\ KeyIdle /\ RaceIdle /\ StoreIdle
    /\ realtime \in {RealtimeAfter(n, enabled) :
                        n \in {0, context_limit - 1, context_limit + 2},
                        enabled \in BOOLEAN}

NextRealtime == HandleIncoming \/ ResumeHandling \/ CleanupInactiveContacts

SpecRealtime == InitRealtime /\ [][NextRealtime]_vars

\* the key function about to be applied to two inputs
InitKey ==
    /\ ExtractorIdle /\ PipelineInit /\ BuildIdle /\ MergeIdle /\ StandaloneIdle
    /\ DeliveryIdle /\ RaceIdle /\ StoreIdle /\ ContextIdle
    /\ keyed \in {[done |-> FALSE, a |-> a, b |-> b, content_a |-> "", content_b |-> ""] :
                     a \in KeyInputs, b \in KeyInputs}

NextKey == GenerateCacheKeys

SpecKey == InitKey /\ [][NextKey]_vars

-----------------------------------------------------------------------------
(* Properties of the embedding text builder *)

\* the string with every tag appended, before any shortening
FullyTagged(in) == Join(" ", <<in.text>> \o EnhancedTags(in.meta))

OverBudget ==
    /\ build_out.done
    /\ Truthy(build_in.meta)
    /\ Len(FullyTagged(build_in)) > max_length

GroupFlagSet == Truthy(Get(build_in.meta, "is_group_message", PyFalse))

\* the group tag and the tag of the first detected intent of the input
ExpectedGroupTag ==
    IF "sender_profile_name" \in DOMAIN build_in.meta.d
    THEN "[GROUPE: " \o Str(build_in.meta.d["sender_profile_name"]) \o "]"
    ELSE "[GROUPE: Groupe]"

ExpectedIntentTag ==
    LET sig == Get(Get(build_in.meta, "semantic_metadata", PyDict(EmptyDict)),
                   "intent_signals", PyDict(EmptyDict))
        on(k) == k \in DOMAIN sig.d /\ sig.d[k] = PyTrue
    IN  IF on("is_selling") THEN "[INTENTION: VENTE]"
        ELSE IF on("is_seeking") THEN "[INTENTION: RECHERCHE]"
        ELSE IF on("is_question") THEN "[INTENTION: QUESTION]"
        ELSE IF on("has_urgency") THEN "[INTENTION: URGENT]"
        ELSE ""

\* C8 (as claimed): whatever the text and the metadata, the returned string
\* is at most max_length characters long.
C8_LengthCapAlways == build_out.done => Len(build_out.text) <= max_length

\* C9 (as claimed): over budget, the result is the first max_length
\* characters of the text, a space and one tag only: the group tag if the
\* group flag is set, otherwise the tag of the first detected intent.
C9_SingleTagFallback ==
    OverBudget =>
        build_out.text =
            Prefix(build_in.text \o " "
                     \o (IF GroupFlagSet THEN ExpectedGroupTag ELSE ExpectedIntentTag),
                   max_length)

\* C9 (amended): over budget, the result is the first max_length characters
\* of the text, a space, and the priority tags joined by single spaces: the
\* group tag if the group flag is set, then the tag naming only the first
\* detected intent if an intent is detected (both when both apply).
C9_PriorityTagsFallback ==
    OverBudget =>
        build_out.text =
            Prefix(build_in.text \o " "
                     \o (IF GroupFlagSet /\ ExpectedIntentTag # ""
                         THEN ExpectedGroupTag \o " " \o ExpectedIntentTag
                         ELSE IF GroupFlagSet THEN ExpectedGroupTag
                         ELSE ExpectedIntentTag),
                   max_length)

\* C9 witness: an over-budget input with the group flag set and an intent
\* detected, short enough for both priority tags to survive the cut.
C9_Witness ==
    /\ OverBudget
    /\ GroupFlagSet
    /\ ExpectedIntentTag # ""
    /\ Len(build_out.text) < max_length
    /\ Len(build_out.text) > Len(build_in.text) + Len(ExpectedGroupTag) + 2

-----------------------------------------------------------------------------
(* Properties of the extractors *)

LLMCalls == {i \in 1..Len(extract_log) : extract_log[i].op = "llm"}
PatternCalls == {i \in 1..Len(extract_log) : extract_log[i].op = "regex"}

\* calls i and i+1 are two successive extractions of the same (text, context)
SuccessivePair(i) ==
    /\ i \in LLMCalls
    /\ i + 1 \in LLMCalls
    /\ extract_log[i + 1].text = extract_log[i].text
    /\ extract_log[i + 1].meta = extract_log[i].meta

IssuedBy(i) == IF extract_log[i].called THEN 1 ELSE 0

\* C1 (as claimed): two successive extractions of the same (text, context)
\* call the completion service at most once in total, and the second returns
\* a record equal to the first, whatever the service did.
C1_SecondCallFromCache ==
    \A i \in 1..Len(extract_log) :
        SuccessivePair(i) =>
            /\ IssuedBy(i) + IssuedBy(i + 1) <= 1
            /\ extract_log[i + 1].ret = extract_log[i].ret

\* the service was called and raised, or answered something json.loads rejects
ServiceFailed(i) ==
    /\ i \in LLMCalls
    /\ extract_log[i].called
    /\ extract_log[i].completion.raises \/ ~extract_log[i].completion.parses

ErrorDescription(i) ==
    IF extract_log[i].completion.raises THEN extract_log[i].completion.err
    ELSE "JSONDecodeError"

\* a freshly constructed record with nothing but the reasoning set
DefaultRecordWithReasoning(text) ==
    [t |-> "obj", s |-> "LLMWatchInfo", n |-> 0, l |-> <<>>,
     d |-> [LLMWatchInfoDefaults EXCEPT
               !.confidence_score = PyNum(0),
               !.llm_reasoning = PyStr(text),
               !.accessories_list = PyList(<<>>),
               !.extracted_text_segments = PyList(<<>>)]]

\* C2: no extraction lets an exception out, and when the completion call
\* raises or its answer is not JSON the record returned has confidence 0.0,
\* the error description as reasoning, and every other field at its default.
C2_FailureGivesFallbackRecord ==
    \A i \in LLMCalls :
        /\ ~extract_log[i].raised
        /\ ServiceFailed(i) =>
              extract_log[i].ret =
                  DefaultRecordWithReasoning("Erreur d'extraction: " \o ErrorDescription(i))

\* both kinds of failure have happened in one run
C2_Witness ==
    /\ \E i \in 1..Len(extract_log) : ServiceFailed(i) /\ extract_log[i].completion.raises
    /\ \E i \in 1..Len(extract_log) : ServiceFailed(i) /\ ~extract_log[i].completion.raises

\* C10 (as claimed): the confidence of every record returned by either
\* extractor is a number between 0.0 and 1.0.
C10_ConfidenceInUnitInterval ==
    \A i \in LLMCalls \cup PatternCalls :
        LET c == Attr(extract_log[i].ret, "confidence_score")
        IN  c.t = "num" /\ 0 <= c.n /\ c.n <= 100

-----------------------------------------------------------------------------
(* Properties of the record merger *)

\* C7: create_message_embedding_from_watch_info never raises: for every
\* extractor record and every envelope it returns an entry object
C7_MergeNeverRaises ==
    merge_out.done => (merge_out.exc = "" /\ merge_out.entry.t = "obj")

-----------------------------------------------------------------------------
(* Properties of the pipeline entry point *)

Handled == {pipeline_log[k] : k \in 1..Len(pipeline_log)}

\* the insert was issued and raised or came back without a row
StoreFailed(call) == call.insert_issued /\ call.insert \in {"raises", "no_data"}

RowsOf(message) ==
    {r \in 1..Len(table) :
        /\ Get(table[r], "phone_number", PyNone) = Get(message, "from", PyNone)
        /\ Get(table[r], "message_content", PyNone) = Get(message, "text", PyNone)}

C5_NoInsertWithoutEmbedding ==
    /\ \A call \in Handled :
          /\ call.embed = "none" =>
                (~call.result.success /\ ~call.insert_issued /\ call.rows = 0)
          /\ call.insert_issued => (call.embed = "vector" /\ Truthy(call.vec))
    /\ \A r \in 1..Len(table) : Truthy(Get(table[r], "embedding", PyNone))

\* a run in which the embeddings service failed for one call, which
\* returned a failure, and another call stored a row
C5_Witness ==
    /\ \E call \in Handled :
          /\ call.embed = "none" /\ call.requests >= 1
          /\ ~call.result.success /\ ~call.insert_issued
    /\ \E call \in Handled : call.insert_issued /\ call.rows = 1
    /\ Len(table) = 1

\* the embedding call and the insert succeed for an accepted text message
ServicesSucceed(call) ==
    /\ Truthy(Get(call.message, "text", PyNone))
    /\ call.embed = "vector"
    /\ call.insert = "ok"

\* C6: when the embedding call and the insert succeed, one entry is stored
\* and the outcome is a success, whatever record the extractor returned
C6_StoredWhateverTheRecord ==
    \A call \in Handled :
        ServicesSucceed(call) => (call.rows = 1 /\ call.result.success)

-----------------------------------------------------------------------------
(* The merged entry's derived fields, on the merge called on its own *)

\* watch_info as create_message_embedding_from_watch_info normalizes it
MergeInNormalized == _normalize_watch_info(merge_in.watch_info)

\* the envelope after "whatsapp_metadata or {}"
MergeInMeta == PyOr(merge_in.whatsapp_metadata, PyDict(EmptyDict))

NoSentimentKeyword(content) ==
    ~ContainsAny(Lower(content), positive_words \o negative_words \o neutral_words)

\* C12: the sentiment_score of an entry the merge returns is a number in
\* [-1.0, 1.0], and it is 0.0 when the text contains no sentiment keyword
C12_SentimentInUnitRange ==
    (merge_out.done /\ merge_out.exc = "") =>
        \E score \in {merge_out.entry.d.sentiment_score} :
            /\ score.t = "num"
            /\ score.n \in -100..100
            /\ NoSentimentKeyword(merge_in.content) => score.n = 0

\* semantic_meta = whatsapp_meta.get('semantic_metadata', {})
MergeInSemantic == Get(MergeInMeta, "semantic_metadata", PyDict(EmptyDict))

\* the type the intent signals give: sale, then wanted, then question
SignalMessageType(semantic_meta) ==
    IF Truthy(Get(Signals(semantic_meta), "is_selling", PyNone)) THEN PyStr("sale")
    ELSE IF Truthy(Get(Signals(semantic_meta), "is_seeking", PyNone)) THEN PyStr("wanted")
    ELSE IF Truthy(Get(Signals(semantic_meta), "is_question", PyNone)) THEN PyStr("question")
    ELSE PyStr("general")

-----------------------------------------------------------------------------
(* The query embedding cache *)

\* C14: after any sequence of generate_query_embedding calls on one
\* searcher (hits, misses, failed calls) the cache holds at most 100 entries
C14_CacheAtMostLimit == Len(embedding_cache) <= embedding_cache_limit

\* a call has just stored its vector in a cache that was full, and the
\* cache holds 100 entries
C14_Witness ==
    /\ query_log.outcome = "stored"
    /\ Len(query_log.evicted) = 1
    /\ Len(embedding_cache) = embedding_cache_limit

\* the item of the cache that was inserted first
EarliestInserted(cache) ==
    CHOOSE item \in {cache[i] : i \in 1..Len(cache)} :
        \A i \in 1..Len(cache) : item.inserted_at <= cache[i].inserted_at

\* what a call may do to the cache: a hit or a failed call leaves it as it
\* was; a stored vector goes behind the items it finds, all of which stay
\* when the cache is not full, and all but the earliest inserted when it is
EvictsEarliestOnly ==
    /\ query_log'.outcome \in {"hit", "failed"} =>
          (embedding_cache' = embedding_cache /\ query_log'.evicted = <<>>)
    /\ (query_log'.outcome = "stored" /\ Len(embedding_cache) < embedding_cache_limit) =>
          /\ query_log'.evicted = <<>>
          /\ SubSeq(embedding_cache', 1, Len(embedding_cache)) = embedding_cache
    /\ (query_log'.outcome = "stored" /\ Len(embedding_cache) >= embedding_cache_limit) =>
          /\ query_log'.evicted = <<EarliestInserted(embedding_cache)>>
          /\ SubSeq(embedding_cache', 1, Len(embedding_cache') - 1)
                = SelectSeq(embedding_cache,
                            LAMBDA item : item # EarliestInserted(embedding_cache))

\* C15: an insert into a full cache evicts one entry, the earliest inserted;
\* a hit does not change the eviction order (first in first out, not least
\* recently used); a failed embedding call evicts nothing
C15_FirstInFirstOut == [][EvictsEarliestOnly]_vars

\* a call has just evicted the entry that was the last one served from the
\* cache
C15_Witness ==
    /\ query_log.outcome = "stored"
    /\ Len(query_log.evicted) = 1
    /\ query_log.evicted[1].query = query_log.last_hit

-----------------------------------------------------------------------------
(* extract_batch against extract_watch_info *)

\* C16: extract_batch returns one record per message, in order, and element
\* i is what extract_watch_info returns for message i, with the same calls
\* of the completion service and the same effect on the cache, a message of
\* empty or whitespace-only content included
C16_BatchIsExtractEach ==
    batch_out.done =>
        \E each \in {ExtractEachFrom(<<>>, batch_in.messages, batch_in.completions, 1)} :
            /\ Len(batch_out.ret) = Len(batch_in.messages)
            /\ batch_out.ret = each.ret
            /\ batch_out.called = each.called
            /\ batch_out.cache = each.cache

-----------------------------------------------------------------------------
(* The extraction cache key against the prompt *)

\* C17: two extractions whose prompts differ (in the text, the sender
\* profile name, the group flag or the intent signals shown) never share a
\* cache entry
C17_KeyCoversPrompt ==
    \A i \in LLMCalls, j \in LLMCalls :
        _create_extraction_prompt(extract_log[i].text, extract_log[i].meta)
            # _create_extraction_prompt(extract_log[j].text, extract_log[j].meta)
        => _generate_cache_key(extract_log[i].text, extract_log[i].meta)
            # _generate_cache_key(extract_log[j].text, extract_log[j].meta)

-----------------------------------------------------------------------------
(* The context enrichment *)

\* C18: for every text, contact and reply context (a missing contact, a
\* missing profile, a profile whose name is null, no reply context) group
\* detection and the construction of the semantic metadata return a value
\* without raising
C18_EnrichmentNeverRaises ==
    enrich_out.done =>
        /\ enrich_out.group_exc = ""
        /\ enrich_out.is_group.t = "bool"
        /\ enrich_out.semantic_exc = ""
        /\ enrich_out.semantic.t = "dict"

-----------------------------------------------------------------------------
(* The pattern extractor and the order of its brand vocabulary *)

\* C19: the record the pattern extractor returns for a text is the same
\* whichever iteration order the brand vocabulary has and whatever calls
\* were made before, texts naming two or more brands included
C19_SameRecordInEveryOrder ==
    \A i \in PatternCalls : \A order \in BrandOrders :
        extract_log[i].ret = PatternResults[order][extract_log[i].text].ret

-----------------------------------------------------------------------------
(* The same merge made twice *)

\* the entry with the processed_at stamp of its search metadata blanked
WithoutProcessedAt(entry) ==
    [entry EXCEPT !.d.search_metadata.d.processed_at = PyNone]

\* C20: merging the same record with the same envelope twice gives two
\* entries equal in every field except the processed_at stamp: the message
\* timestamp, the extraction timestamp and the keyword list do not differ
C20_SecondMergeEqualButStamp ==
    (merge_again.done /\ merge_out.exc = "" /\ merge_again.exc = "") =>
        WithoutProcessedAt(merge_again.entry) = WithoutProcessedAt(merge_out.entry)

-----------------------------------------------------------------------------
(* One webhook delivery *)

\* the messages are handled in the order of the payload
InPayloadOrder ==
    /\ \A k \in 1..Len(delivery.order) : delivery.order[k] = k
    /\ \A j \in 1..Len(delivery.calls) : \A k \in 1..Len(delivery.calls) :
          j < k => delivery.calls[j][1] <= delivery.calls[k][1]

\* C21: the messages of one delivery are processed one after another in
\* payload order, every external call for a message being made before any
\* call for the next, and a failure outcome for a message does not keep the
\* next message from being processed
C21_OneAfterAnotherInOrder ==
    /\ InPayloadOrder
    /\ \A i \in 1..Len(delivery.success) :
          (/\ ~delivery.success[i]
           /\ i < Len(delivery.messages)
           /\ ~PreviewRaises(delivery.messages[i + 1])
           /\ delivery.status # "open")
          => i + 1 \in delivery.done
    /\ delivery.status = "received" => delivery.done = 1..Len(delivery.messages)

\* a delivery of two messages is over: the first ended in a failure after
\* its embedding call, the second was then handled and made calls of its own
C21_Witness ==
    /\ delivery.status = "received"
    /\ Len(delivery.messages) = 2
    /\ ~delivery.success[1]
    /\ \E k \in 1..Len(delivery.calls) : delivery.calls[k] = <<1, "embedding">>
    /\ \E k \in 1..Len(delivery.calls) : delivery.calls[k][1] = 2

-----------------------------------------------------------------------------
(* Properties of the extractors on the empty text *)

\* the calls of either extractor on the empty string
EmptyTextCalls ==
    {i \in 1..Len(extract_log) :
        extract_log[i].op \in {"llm", "regex"} /\ extract_log[i].text = ""}

\* the declared defaults of the record class of the extractor
DeclaredDefaults(op) ==
    IF op = "regex" THEN WatchInfoDefaults ELSE LLMWatchInfo(<<>>).d

\* every field but the method and the reasoning is at its declared default
AllAtDefault(op, ret) ==
    \A f \in DOMAIN DeclaredDefaults(op) \ {"extraction_method", "llm_reasoning"} :
        Attr(ret, f) = DeclaredDefaults(op)[f]

\* C22: on the empty string each extractor returns, without raising, a record
\* with confidence_score 0.0 and every optional field null or at its declared
\* default: price_type included for the pattern extractor, and whatever the
\* model answers for the model extractor.
C22_EmptyTextGivesEmptyRecord ==
    \A i \in EmptyTextCalls :
        /\ ~extract_log[i].raised
        /\ extract_log[i].ret.t = "obj"
        /\ Attr(extract_log[i].ret, "confidence_score") = PyNum(0)
        /\ AllAtDefault(extract_log[i].op, extract_log[i].ret)

\* the keywords of the wanted bucket of _classify_message_type
wanted_keywords == <<"cherche", "recherche", "wanted", "wtb", "looking for">>

\* the calls of the pattern extractor on a text with a wanted keyword
WantedTextCalls ==
    {i \in PatternCalls : ContainsAny(Lower(extract_log[i].text), wanted_keywords)}

\* C24: the pattern extractor classifies a text with a wanted keyword such as
\* 'cherche' as 'wanted', also when the text holds a sale keyword such as
\* 'prix': the wanted bucket is matched before the sale bucket.
C24_WantedBeforeSale ==
    \A i \in WantedTextCalls :
        Attr(extract_log[i].ret, "message_type") = PyStr("wanted")

-----------------------------------------------------------------------------
(* Properties of group detection *)

\* the sender id of the enriched message holds the group suffix
GroupSuffixSender == Contains(enrich_in.sender_wa_id, "@g.us")

\* C23: group detection returns true for every sender id that contains
\* '@g.us', whatever the contact profile and the reply context are; the rule
\* is decided before the reply context and the profile name are evaluated, so
\* a profile that the later rules cannot read does not make the call raise.
C23_GroupSuffixDecidesFirst ==
    (enrich_out.done /\ GroupSuffixSender)
        => /\ enrich_out.group_exc = ""
           /\ enrich_out.is_group = PyTrue

\* a group sender whose profile name is null and who quotes no message
C23_Witness ==
    /\ enrich_out.done
    /\ GroupSuffixSender
    /\ enrich_in.contact_info =
          PyDict([wa_id |-> PyStr("33612345678"), profile |-> PyDict([name |-> PyNone])])
    /\ enrich_in.context_info = PyDict(EmptyDict)
    /\ enrich_out.is_group = PyTrue

-----------------------------------------------------------------------------
(* Properties of the normalization of extractor records *)

\* the fields of the record handed to the merge, none for no record
MergeInFields ==
    IF merge_in.watch_info.t = "obj" THEN merge_in.watch_info.d ELSE EmptyDict

\* normalized_watch.get(name) returns the value the extractor gave to name
SeenUnderOriginalName(name) ==
    Get(MergeInNormalized, name, PyNone) = MergeInFields[name]

\* C25: normalization is lossless: every field of the extractor's record is
\* retrievable from the normalized record under its original name with its
\* original value (collection, material and has_box included), so a lookup by
\* original name in the merge sees the extractor's value.
C25_NormalizationKeepsNames ==
    merge_out.done => \A name \in DOMAIN MergeInFields : SeenUnderOriginalName(name)

-----------------------------------------------------------------------------
(* Properties of the extraction cache *)

\* the zero-confidence records the two except branches build
FallbackRecords ==
    {ConversionErrorRecord}
        \cup {ExtractionErrorRecord(e) : e \in {"APIConnectionError", "JSONDecodeError", "format"}}

\* call j repeats the input of the earlier call i, the cache not cleared since
RepeatsInput(i, j) ==
    /\ i \in LLMCalls /\ j \in LLMCalls /\ i < j
    /\ extract_log[j].text = extract_log[i].text
    /\ extract_log[j].meta = extract_log[i].meta
    /\ \A k \in i..j : extract_log[k].op # "clear"

\* C27: the extraction cache only holds records built from a response that
\* was parsed and converted successfully; a zero-confidence fallback record
\* is never cached, so a call that repeats the input of a call that returned
\* one invokes the model again.
C27_FallbackNeverCached ==
    /\ \A key \in DOMAIN extraction_cache : extraction_cache[key] \notin FallbackRecords
    /\ \A i, j \in 1..Len(extract_log) :
          (RepeatsInput(i, j) /\ extract_log[i].ret \in FallbackRecords)
              => extract_log[j].called

\* the call has metadata: "if whatsapp_metadata:" is taken
HasMetadata(in) == Truthy(in.meta)

\* (text, sender profile name, group flag) as the key function reads them
KeyTriple(in) ==
    <<in.text,
      Get(in.meta, "sender_profile_name", PyStr("")),
      Get(in.meta, "is_group_message", PyFalse)>>

\* two calls with different triples, or one with metadata and one without
DifferentKeyInputs(a, b) ==
    \/ HasMetadata(a) # HasMetadata(b)
    \/ HasMetadata(a) /\ HasMetadata(b) /\ KeyTriple(a) # KeyTriple(b)
    \/ ~HasMetadata(a) /\ ~HasMetadata(b) /\ a.text # b.text

\* C28: the cache key is injective: two calls with different (text, sender
\* profile name, group flag) triples, or one with metadata and one without,
\* never hash the same string, so no call gets the record of another message.
C28_KeyInjective ==
    (keyed.done /\ DifferentKeyInputs(keyed.a, keyed.b))
        => keyed.content_a # keyed.content_b

-----------------------------------------------------------------------------
(* Properties of the query cache under two workers *)

\* worker w obtained an embedding from the service
Computed(w) == race.embedding[w] # PyNone

\* C26: with two workers inside generate_query_embedding on one searcher, in
\* every interleaving of their check, evict and insert steps the cache holds
\* at most 100 entries, and a call that computed its embedding returns it: the
\* other call's eviction does not make it lose the embedding.
C26_ConcurrentCallsKeepLimit ==
    race.status = "open" =>
        /\ Len(race.cache) <= embedding_cache_limit
        /\ \A w \in Workers :
              (race.pc[w] = "done" /\ Computed(w)) => race.ret[w] = race.embedding[w]

-----------------------------------------------------------------------------
(* Properties of process_and_store_conversation *)

\* the new messages of the call: not empty, not stored for the phone number
NewMessages == valid_messages(storing.in.messages, StorePhone, storing.in.existing)

StoredHashes == {storing.rows[k].content_hash : k \in 1..Len(storing.rows)}

\* every new message was embedded and stored
AllNewStored ==
    \A i \in 1..Len(NewMessages) : MessageHash(NewMessages[i], StorePhone) \in StoredHashes

\* C29: process_and_store_conversation returns True only when every new
\* message was embedded and stored, or there was no new message; whenever a
\* new message could not be embedded, turned into an entry or inserted, it
\* returns False.
C29_TrueOnlyWhenAllStored ==
    storing.done => (storing.ret => AllNewStored)

-----------------------------------------------------------------------------
(* Properties of the contact contexts *)

\* the messages of q in arrival order (the id of a message is its place in
\* the arrivals)
RECURSIVE InArrivalOrder(_)
InArrivalOrder(q) ==
    IF q = <<>> THEN <<>>
    ELSE LET first == CHOOSE i \in 1..Len(q) : \A j \in 1..Len(q) : q[i].id <= q[j].id
         IN  <<q[first]>>
             \o InArrivalOrder([k \in 1..(Len(q) - 1) |-> IF k < first THEN q[k] ELSE q[k + 1]])

\* the timestamps of the last context_limit messages of q
MostRecentStamps(q) ==
    [k \in 1..Min(context_limit, Len(q)) |->
        q[Len(q) - Min(context_limit, Len(q)) + k].timestamp]

\* the timestamps of the messages a context keeps, in the order kept
KeptStamps(context) ==
    [k \in 1..Len(context.last_messages) |-> context.last_messages[k].timestamp]

\* C30: after any sequence of incoming messages every active contact's
\* context keeps at most the 10 most recent messages in arrival order, its
\* message_count is the number of messages handled for the contact since the
\* context was created, and last_message_time is the timestamp of the message
\* handled last.
C30_ContextKeepsLastTen ==
    realtime.status = "open" =>
        \A phone \in DOMAIN realtime.active_contacts :
            /\ Len(realtime.active_contacts[phone].last_messages) <= context_limit
            /\ KeptStamps(realtime.active_contacts[phone])
                  = MostRecentStamps(InArrivalOrder(realtime.updated[phone]))
            /\ realtime.active_contacts[phone].message_count = Len(realtime.updated[phone])
            /\ realtime.active_contacts[phone].message_count
                  >= Len(realtime.active_contacts[phone].last_messages)
            /\ realtime.active_contacts[phone].last_message_time
                  = realtime.updated[phone][Len(realtime.updated[phone])].timestamp

====
